---- MODULE Spec2Model ----
(***************************************************************************)
(* Retrieval-and-repair pipeline of sparql-naturalizer.                    *)
(*                                                                         *)
(*  - cleanSparqlResponse (the response sanitizer of the generate-sparql   *)
(*    route), a pure function over text;                                   *)
(*  - searchKnowledgeBase / loadVectorStore / cosineSimilarity (the        *)
(*    semantic retriever of vectorStoreService).                           *)
(*                                                                         *)
(* Text is a sequence of lexemes.  A lexeme is one of the character        *)
(* groups that the regular expressions and string searches of the code tell *)
(* apart:                                                                  *)
(*   "PREFIX"  the keyword in upper case (what indexOf("PREFIX") and       *)
(*             includes("PREFIX") find, and /PREFIX/i too)                 *)
(*   "prefix"  the keyword in any other letter case (only /PREFIX/i)       *)
(*   "SELECT"  the keyword in any letter case (only used with /i)          *)
(*   "LIMIT"   the keyword in any letter case (only used with /i)          *)
(*   " "       a whitespace character other than the line feed             *)
(*   "\n"      a line feed                                                 *)
(*   "1"       a decimal digit                                             *)
(*   "{" "}"   the grouping braces                                         *)
(*   "FENCE"   three backtick characters (a code-fence marker)             *)
(*   "sparql"  the lower-case language tag that may follow a fence         *)
(*   "x"       any other run of characters                                 *)
(*   "dcat" "dct" "foaf"  the namespace bindings of the default block      *)
(***************************************************************************)
EXTENDS Integers, Sequences, FiniteSets, TLC

VARIABLES
    \* ---- sanitizer call ----
    response,      \* the raw completion handed to cleanSparqlResponse
    afterCut,      \* sparql after line 40 (trim, fences, extraction, cuts)
    beforeRepair,  \* sparql after line 50 (the text reaching the brace repair)
    cleaned,       \* the value returned by cleanSparqlResponse(response)
    threw,         \* whether the call ended in a TypeError instead of returning
    recleaned,     \* the value returned by cleanSparqlResponse(cleaned)
    sanPc,         \* "idle" | "cleaned" | "recleaned"
    \* ---- knowledge base ----
    indexFile,     \* the persisted index file (vector-store.json)
    vectorStore,   \* the module-level cache of the loaded index
    loads,         \* how many times the process read and parsed the index file
    kbQuery,       \* arguments of the last searchKnowledgeBase call
    kbK,
    kbFilter,
    kbProvider,    \* how the embedding provider behaves during that call
    kbOutcome,     \* "none" | "returned" | "threw": how that call ended
    kbError,       \* "none" | "provider" | "dimension": the error it caught
    kbResult,      \* the RetrievedDocument sequence it returned
    kbEmbedCalls,  \* how many times that call invoked model.embedQuery
    \* ---- embeddings of texts ----
    embeddingsCache, \* the module-level Map from a text to its embedding,
                   \* as the set of its entries <<key, value>>
    computed,      \* the queries a completed searchKnowledgeBase call computed
                   \* an embedding for (history, kept where it is traced)
    \* ---- context aggregator ----
    ctxQuery,      \* argument of the last getContextForQuery call
    ctxProviders,  \* how the provider behaves in each of its three searches
    ctxOutcome,    \* "none" | "returned" | "threw": how that call ended
    ctxResult,     \* the object it returned
    ctxEmbedCalls, \* how many times that call invoked model.embedQuery
    \* ---- keyword fallback ----
    examplesFile,  \* the examples parsed from examples.md by loadExamples()
    krQuery,       \* arguments of the last getRelevantExamples call
    krK,
    krOutcome,     \* "none" | "returned"
    krResult,      \* the Example sequence it returned
    \* ---- POST /api/generate-sparql ----
    reqBody,       \* the JSON body of the request
    reqProvider,   \* how the embedding provider behaves during the request
    reqLlm,        \* how invokeLLM ends during the request
    reply,         \* the response of the handler and how it came about
    \* ---- cosineSimilarity call ----
    vecA,          \* the arguments of the call
    vecB,
    csOutcome,     \* "none" | "returned" | "threw"
    csScore,       \* the value it returned
    \* ---- a request that its client may cancel ----
    aborted,       \* the client has gone away: the signal of the request fired
    searchPc,      \* where each of the three category searches of
                   \* getContextForQuery is: "idle" | "started" | "embedding"
                   \* | "done" | "failed"
    lateCalls,     \* embedQuery calls issued after the request was cancelled
    handed,        \* what getContextForQuery handed to POST: "none" | "all"
    \* ---- overlapping calls of getRelevantExamplesWithEmbeddings ----
    mapPc,         \* for each of two calls, where the callback of
                   \* allExamples.map is for each example: "hit" |
                   \* "computing" | "stored" | "failed"; the empty sequence
                   \* before the call has reached allExamples.map
    \* ---- the event stream of a streaming POST ----
    llmAnswer,     \* how invokeLLM(prompt) will end: ok and the completion
    events,        \* the events enqueued on the stream so far
    closed,        \* controller.close() was called
    position,      \* how many characters the for-of loop has been through
    streamPc,      \* "idle" | "waiting" | "chunking" | "closed"
    \* ---- GET /api/generate-sparql ----
    env,           \* process.env: LLM_PROVIDER and which keys are set
    fetchOutcome,  \* how a fetch of the provider ends: "ok" | "notok" | "throws"
    availability,  \* what checkLLMAvailability() returned to GET
    healthReply    \* the response of GET

sanVars == <<response, afterCut, beforeRepair, cleaned, threw, recleaned, sanPc>>

kbVars == <<indexFile, vectorStore, loads, kbQuery, kbK, kbFilter, kbProvider,
            kbOutcome, kbError, kbResult, kbEmbedCalls>>

embVars == <<embeddingsCache, computed>>

ctxVars == <<ctxQuery, ctxProviders, ctxOutcome, ctxResult, ctxEmbedCalls>>

krVars == <<examplesFile, krQuery, krK, krOutcome, krResult>>

reqVars == <<reqBody, reqProvider, reqLlm, reply>>

csVars == <<vecA, vecB, csOutcome, csScore>>

cxlVars == <<aborted, searchPc, lateCalls, handed>>

raceVars == <<mapPc>>

streamVars == <<llmAnswer, events, closed, position, streamPc>>

healthVars == <<env, fetchOutcome, availability, healthReply>>

vars == <<sanVars, kbVars, embVars, ctxVars, krVars, reqVars, csVars, cxlVars, raceVars, streamVars, healthVars>>

----------------------------------------------------------------------------
(* Bounds *)

MaxChunks == 4      \* a raw completion is made of at most this many chunks
MaxBody == 5        \* chunks between PREFIX and the final limit clause
MaxDocs == 3        \* documents in the persisted index
MaxK == 3           \* largest result count asked for
MaxFieldDocs == 2   \* documents in an index whose documents have categories
MaxTracedDocs == 2  \* documents in an index searched with any provider outcome
MaxContextDocs == 4 \* documents in an index the context aggregator searches
MaxExamples == 10   \* examples parsed from examples.md
MaxWords == 3       \* lexemes of a query handed to the keyword fallback
MaxRequestDocs == 1     \* documents in the index when a request is served
MaxRequestExamples == 4 \* examples in examples.md when a request is served
MaxRequestWords == 2    \* lexemes of the query of a request
MaxNegativeK == 2       \* a retriever is called with k down to -MaxNegativeK
MaxDim == 2             \* length of a vector handed to cosineSimilarity
MaxComponent == 1       \* components of such a vector are in -MaxComponent..MaxComponent
MaxRaceExamples == 2    \* examples embedded by two overlapping calls
MaxStreamChunks == 2    \* a streamed completion is made of at most this many chunks

----------------------------------------------------------------------------
(* Lexemes *)

PrefixUpper == "PREFIX"
PrefixAnyCase == {"PREFIX", "prefix"}
SelectAnyCase == {"SELECT"}
LimitAnyCase == {"LIMIT"}

Tokens ==
    {"PREFIX", "prefix", "SELECT", "LIMIT", " ", "\n", "1", "{", "}",
     "FENCE", "sparql", "x", "dcat", "dct", "foaf"}

IsSpace(c) == c \in {" ", "\n"}

IsDigit(c) == c = "1"

Min(S) == CHOOSE m \in S : \A n \in S : m <= n

Count(s, c) == Cardinality({i \in 1..Len(s) : s[i] = c})

RECURSIVE Flatten(_)
Flatten(ss) == IF ss = <<>> THEN <<>> ELSE Head(ss) \o Flatten(Tail(ss))

----------------------------------------------------------------------------
(* String primitives of the runtime, as cleanSparqlResponse uses them *)

RECURSIVE TrimStart(_)
TrimStart(s) ==
    IF s # <<>> /\ IsSpace(Head(s)) THEN TrimStart(Tail(s)) ELSE s

RECURSIVE TrimEnd(_)
TrimEnd(s) ==
    IF s # <<>> /\ IsSpace(s[Len(s)])
    THEN TrimEnd(SubSeq(s, 1, Len(s) - 1))
    ELSE s

\* String.prototype.trim
trim(s) == TrimEnd(TrimStart(s))

\* s.indexOf(c), 1-based; 0 when absent (where the code has -1)
indexOf(s, c) ==
    LET at == {i \in 1..Len(s) : s[i] = c}
    IN  IF at = {} THEN 0 ELSE Min(at)

\* s.includes(c)
includes(s, c) == \E i \in 1..Len(s) : s[i] = c

\* sparql.replace(/FENCE sparql \n?/g, EMPTY): a fence with its language tag
RECURSIVE StripTaggedFences(_)
StripTaggedFences(s) ==
    IF s = <<>> THEN <<>>
    ELSE IF Len(s) >= 2 /\ s[1] = "FENCE" /\ s[2] = "sparql"
         THEN IF Len(s) >= 3 /\ s[3] = "\n"
              THEN StripTaggedFences(SubSeq(s, 4, Len(s)))
              ELSE StripTaggedFences(SubSeq(s, 3, Len(s)))
         ELSE <<Head(s)>> \o StripTaggedFences(Tail(s))

\* sparql.replace(/FENCE \n?/g, EMPTY): a bare fence
RECURSIVE StripFences(_)
StripFences(s) ==
    IF s = <<>> THEN <<>>
    ELSE IF s[1] = "FENCE"
         THEN IF Len(s) >= 2 /\ s[2] = "\n"
              THEN StripFences(SubSeq(s, 3, Len(s)))
              ELSE StripFences(Tail(s))
         ELSE <<Head(s)>> \o StripFences(Tail(s))

\* first index >= i that holds no whitespace (Len(s)+1 when none)
RECURSIVE SkipSpaces(_, _)
SkipSpaces(s, i) ==
    IF i <= Len(s) /\ IsSpace(s[i]) THEN SkipSpaces(s, i + 1) ELSE i

\* first index >= i that holds no digit
RECURSIVE SkipDigits(_, _)
SkipDigits(s, i) ==
    IF i <= Len(s) /\ IsDigit(s[i]) THEN SkipDigits(s, i + 1) ELSE i

\* /LIMIT\s+\d+/i anchored at i: the index of the last lexeme matched, 0 when
\* it does not match there (\s+ and \d+ are greedy and cannot give back)
LimitEnd(s, i) ==
    IF i + 1 <= Len(s) /\ s[i] \in LimitAnyCase /\ IsSpace(s[i + 1])
    THEN LET d == SkipSpaces(s, i + 1)
         IN  IF d <= Len(s) /\ IsDigit(s[d]) THEN SkipDigits(s, d) - 1 ELSE 0
    ELSE 0

\* where the first limit clause at or after from starts; 0 when there is none
FirstLimit(s, from) ==
    LET at == {j \in from..Len(s) : LimitEnd(s, j) > 0}
    IN  IF at = {} THEN 0 ELSE Min(at)

NoMatch == [found |-> FALSE, group |-> <<>>]

\* s.match(/(KEYWORD[\s\S]*?LIMIT\s+\d+)/i): the leftmost keyword that a limit
\* clause follows, lazily up to the first such clause
MatchKeywordToLimit(s, keyword) ==
    LET starts == {i \in 1..Len(s) : s[i] \in keyword /\ FirstLimit(s, i + 1) > 0}
    IN  IF starts = {} THEN NoMatch
        ELSE LET i == Min(starts)
                 j == FirstLimit(s, i + 1)
             IN  [found |-> TRUE, group |-> SubSeq(s, i, LimitEnd(s, j))]

\* s.match(/^([\s\S]*?LIMIT\s+\d+)/i)
MatchStartToLimit(s) ==
    LET j == FirstLimit(s, 1)
    IN  IF j = 0 THEN NoMatch
        ELSE [found |-> TRUE, group |-> SubSeq(s, 1, LimitEnd(s, j))]

----------------------------------------------------------------------------
(* cleanSparqlResponse, step by step *)

\* sparql.replace(tagged fences).replace(bare fences)
RemoveCodeFences(s) == StripFences(StripTaggedFences(s))

\* from PREFIX (any case) to the first limit clause, else from SELECT, else
\* the text as it is
ExtractQuery(s) ==
    LET prefixMatch == MatchKeywordToLimit(s, PrefixAnyCase)
        selectMatch == MatchKeywordToLimit(s, SelectAnyCase)
    IN  IF prefixMatch.found THEN trim(prefixMatch.group)
        ELSE IF selectMatch.found THEN trim(selectMatch.group)
        ELSE s

\* DropLeadingText cutting one character too early
DropLeadingText_OffByOne(s) ==
    LET firstPrefix == indexOf(s, PrefixUpper)
    IN  IF firstPrefix > 1 THEN SubSeq(s, firstPrefix - 1, Len(s)) ELSE s

\* const firstPrefix = sparql.indexOf("PREFIX"); if (firstPrefix > 0) substring
DropLeadingText(s) ==
    LET firstPrefix == indexOf(s, PrefixUpper)
    IN  IF firstPrefix > 1 THEN SubSeq(s, firstPrefix, Len(s)) ELSE s

\* CutAfterLimit with a greedy [\s\S]*: it cuts after the last limit clause
CutAfterLimit_Greedy(s) ==
    LET at == {j \in 1..Len(s) : LimitEnd(s, j) > 0}
    IN  IF at = {} THEN s
        ELSE SubSeq(s, 1, LimitEnd(s, CHOOSE j \in at : \A i \in at : i <= j))

\* cut after the first limit clause
CutAfterLimit(s) ==
    LET limitMatch == MatchStartToLimit(s)
    IN  IF limitMatch.found THEN limitMatch.group ELSE s

\* the template literal requiredPrefixes
requiredPrefixes ==
    <<"PREFIX", " ", "dcat", "\n",
      "PREFIX", " ", "dct", "\n",
      "PREFIX", " ", "foaf", "\n",
      "\n">>

\* if (!sparql.includes("PREFIX")) sparql = requiredPrefixes + sparql
AddMissingPrefixes(s) ==
    IF ~includes(s, PrefixUpper) THEN requiredPrefixes \o s ELSE s

\* (sparql.match(/{/g) || []).length and (sparql.match(/}/g) || []).length
openBraces(s) == Count(s, "{")

closeBraces(s) == Count(s, "}")

\* sparql.replace(/(\s*)(LIMIT\s+\d+)/i, "\n}$1$2"): not global, so only the
\* first match is replaced; a text without a match is returned as it is
InsertBraceBeforeLimit(s) ==
    LET at == {p \in 1..Len(s) : LimitEnd(s, SkipSpaces(s, p)) > 0}
    IN  IF at = {} THEN s
        ELSE LET p == Min(at)
             IN  SubSeq(s, 1, p - 1) \o <<"\n", "}">> \o SubSeq(s, p, Len(s))

\* CloseBraces testing for a difference instead of an excess of opening braces
CloseBraces_OnAnyDifference(s) ==
    IF openBraces(s) # closeBraces(s) THEN InsertBraceBeforeLimit(s) ELSE s

\* if (openBraces > closeBraces) replace ...
CloseBraces(s) ==
    IF openBraces(s) > closeBraces(s) THEN InsertBraceBeforeLimit(s) ELSE s

\* sparql after line 40
TextAfterCut(resp) ==
    CutAfterLimit(DropLeadingText(ExtractQuery(RemoveCodeFences(trim(resp)))))

\* the value returned
cleanSparqlResponse(resp) ==
    CloseBraces(AddMissingPrefixes(TextAfterCut(resp)))

\* DereferencesNull for a body that reads selectMatch[1] in the else branch
\* without testing selectMatch
DereferencesNull_UntestedSelect(resp) ==
    LET s2 == RemoveCodeFences(trim(resp))
        prefixMatch == MatchKeywordToLimit(s2, PrefixAnyCase)
        selectMatch == MatchKeywordToLimit(s2, SelectAnyCase)
    IN  ~prefixMatch.found /\ ~selectMatch.found

\* Whether the call dereferences a null match: prefixMatch[1], selectMatch[1]
\* and limitMatch[1] are each read under the test of that very match, and the
\* two brace counts read .length of (match || []).
DereferencesNull(resp) ==
    LET s2 == RemoveCodeFences(trim(resp))
        prefixMatch == MatchKeywordToLimit(s2, PrefixAnyCase)
        selectMatch == MatchKeywordToLimit(s2, SelectAnyCase)
        s3 == DropLeadingText(ExtractQuery(s2))
        limitMatch == MatchStartToLimit(s3)
        reads == {[read |-> prefixMatch.found, null |-> ~prefixMatch.found],
                  [read |-> ~prefixMatch.found /\ selectMatch.found,
                   null |-> ~selectMatch.found],
                  [read |-> limitMatch.found, null |-> ~limitMatch.found]}
    IN  \E r \in reads : r.read /\ r.null

----------------------------------------------------------------------------
(* Raw completions *)

LimitClause == <<"LIMIT", " ", "1">>

\* what a raw completion is put together from
Chunks ==
    {<<"PREFIX">>, <<"prefix">>, <<"SELECT">>, LimitClause, <<"LIMIT">>,
     <<" ">>, <<"\n">>, <<"{">>, <<"}">>, <<"FENCE">>, <<"FENCE", "sparql">>,
     <<"x">>}

ChunkSeqs(n) == UNION {[1..m -> Chunks] : m \in 0..n}

\* "Here you go:\n FENCE sparql\nSELECT ?d WHERE { ?d a Dataset\n FENCE"
ScenarioCompletion ==
    <<"x", "\n", "FENCE", "sparql", "\n",
      "SELECT", " ", "x", " ", "{", " ", "x", "\n", "FENCE">>

Completions == {Flatten(cs) : cs \in ChunkSeqs(MaxChunks)} \cup {ScenarioCompletion}

\* what well-formed query text is put together from, between its leading
\* PREFIX and its final limit clause
BodyChunks == {<<"{">>, <<"}">>, LimitClause, <<" ">>, <<"x">>, <<"PREFIX">>}

WellFormed(s) ==
    /\ s # <<>>
    /\ s[1] \in PrefixAnyCase
    /\ \E j \in 1..Len(s) : LimitEnd(s, j) = Len(s)
    /\ openBraces(s) = closeBraces(s)

WellFormedQueries ==
    {s \in {<<"PREFIX">> \o Flatten(b) \o <<" ">> \o LimitClause :
               b \in UNION {[1..m -> BodyChunks] : m \in 0..MaxBody}} :
        WellFormed(s)}

----------------------------------------------------------------------------
(* Knowledge base: documents, embeddings, scores *)

Undefined == "undefined"      \* an optional field that is not set

\* An embedding is a number[]; a document without one has embedded = FALSE.
\* Documents of the index: id, content, metadata.type/category/difficulty,
\* embedding.  The content of a document is a text of its own.
Document(id, type, category, difficulty, embedded, embedding) ==
    [id |-> id, content |-> <<"content", ToString(id)>>,
     type |-> type, category |-> category, difficulty |-> difficulty,
     embedded |-> embedded, embedding |-> embedding]

\* the VectorStore read from disk; present = FALSE is the missing file
NoStore == [present |-> FALSE, documents |-> <<>>]

Store(docs) == [present |-> TRUE, documents |-> docs]

\* model.embedQuery(text): the embedding the provider computes for a text
Queries == {<<"datasets">>, <<"salud">>}

embedQuery(text) ==
    CASE text = <<"datasets">> -> <<1, 0>>
      [] text = <<"salud">> -> <<1, 1>>
      [] text = <<"pregunta", "1">> -> <<2, 1>>
      [] OTHER -> <<0, 1>>

\* Map.prototype.has, get and set on the entries of a Map
has(cache, key) == \E entry \in cache : entry[1] = key

get(cache, key) == (CHOOSE entry \in cache : entry[1] = key)[2]

set(cache, key, value) ==
    {entry \in cache : entry[1] # key} \cup {<<key, value>>}

\* How the embedding provider behaves during one call: it answers, it cannot
\* be reached, it is not configured (no key or token, or an unsupported
\* provider name), or it rejects the credentials.
ProviderOutcomes == {"ok", "unreachable", "unconfigured", "rejected"}

\* getEmbeddingsModel() throws: the constructor is never reached
getEmbeddingsModelThrows(provider) == provider = "unconfigured"

\* model.embedQuery(text) rejects
embedQueryRejects(provider) == provider \in {"unreachable", "rejected"}

RECURSIVE Dot(_, _)
Dot(a, b) ==
    IF a = <<>> \/ b = <<>> THEN 0
    ELSE Head(a) * Head(b) + Dot(Tail(a), Tail(b))

\* cosineSimilarity without its length test
cosineSimilarityThrows_Never(a, b) == FALSE

\* cosineSimilarity throws when the lengths differ
cosineSimilarityThrows(a, b) == Len(a) # Len(b)

\* dotProduct / (magnitudeA * magnitudeB) as the exact value num / sqrt(den);
\* a zero magnitude makes it 0 / 0, which is NaN.  Scores are compared as
\* exact values: for the embeddings below, equal values come from the same
\* floating-point operations, so ties are ties in the code as well.
cosineSimilarity(a, b) ==
    [nan |-> Dot(a, a) * Dot(b, b) = 0,
     num |-> Dot(a, b),
     den |-> Dot(a, a) * Dot(b, b)]

\* x < y for two scores that are numbers
ScoreLess(x, y) ==
    /\ ~x.nan
    /\ ~y.nan
    /\ IF x.num < 0 /\ y.num >= 0 THEN TRUE
       ELSE IF x.num >= 0 /\ y.num < 0 THEN FALSE
       ELSE IF x.num >= 0
            THEN x.num * x.num * y.den < y.num * y.num * x.den
            ELSE x.num * x.num * y.den > y.num * y.num * x.den

\* the sign of (a, b) => b.score - a.score; sort reads a NaN result as +0
compareByScore(a, b) ==
    IF ScoreLess(a.score, b.score) THEN 1
    ELSE IF ScoreLess(b.score, a.score) THEN -1
    ELSE 0

\* Array.prototype.sort(compareByScore): a stable sort.  With scores that are
\* all numbers the comparator is consistent and every conforming sort returns
\* this order.  With a NaN score the comparator is not consistent and the
\* order is implementation-defined; an insertion sort that reads NaN as +0 is
\* one conforming implementation.
RECURSIVE InsertByScore(_, _)
InsertByScore(sorted, x) ==
    IF sorted = <<>> THEN <<x>>
    ELSE LET last == sorted[Len(sorted)]
         IN  IF compareByScore(last, x) > 0
             THEN InsertByScore(SubSeq(sorted, 1, Len(sorted) - 1), x) \o <<last>>
             ELSE sorted \o <<x>>

RECURSIVE sortByScore(_)
sortByScore(items) ==
    IF items = <<>> THEN <<>>
    ELSE InsertByScore(sortByScore(SubSeq(items, 1, Len(items) - 1)),
                       items[Len(items)])

\* slice that keeps one element too many
slice_OneMore(items, k) ==
    SubSeq(items, 1, IF k + 1 < Len(items) THEN k + 1 ELSE Len(items))

\* Array.prototype.slice(0, k); a negative k counts from the end
slice(items, k) ==
    LET end == IF k < 0 THEN Len(items) + k
               ELSE IF k < Len(items) THEN k ELSE Len(items)
    IN  SubSeq(items, 1, end)

\* the filter argument; a field left out is Undefined
NoFilter == [given |-> FALSE, type |-> Undefined, category |-> Undefined,
             difficulty |-> Undefined]

TypeFilter(type) == [given |-> TRUE, type |-> type, category |-> Undefined,
                     difficulty |-> Undefined]

\* if (filter.type && ...): a field that is left out and a field that holds
\* the empty string are both falsy
Truthy(field) == field # Undefined /\ field # ""

\* matchesFilter testing the type only
matchesFilter_TypeOnly(doc, filter) ==
    ~(Truthy(filter.type) /\ doc.type # filter.type)

\* the callback of documentsToSearch.filter
matchesFilter(doc, filter) ==
    /\ ~(Truthy(filter.type) /\ doc.type # filter.type)
    /\ ~(Truthy(filter.category) /\ doc.category # filter.category)
    /\ ~(Truthy(filter.difficulty) /\ doc.difficulty # filter.difficulty)

\* documentsToSearch after both filters: the filter argument, then
\* .filter(doc => doc.embedding)
candidates(store, filter) ==
    LET keep(doc) == (filter.given => matchesFilter(doc, filter)) /\ doc.embedded
    IN  SelectSeq(store.documents, keep)

\* loadVectorStore without the test of the cache: the file is read each time
loadVectorStore_NoCache(cache, file) ==
    IF file.present THEN file ELSE NoStore

\* readFileSync and JSON.parse are reached and succeed: 1, else 0
readsFile(cache, file) == IF ~cache.present /\ file.present THEN 1 ELSE 0

\* loadVectorStore(): the cached store, else the file when it can be read
loadVectorStore(cache, file) ==
    IF cache.present THEN cache
    ELSE IF file.present THEN file
    ELSE NoStore

\* the try block of searchKnowledgeBase: the sequence it returns or the error
\* it throws, and how many times it invoked model.embedQuery
searchDocuments(store, query, k, filter, provider) ==
    IF getEmbeddingsModelThrows(provider)
    THEN [thrown |-> "provider", result |-> <<>>, embedCalls |-> 0]
    ELSE IF embedQueryRejects(provider)
    THEN [thrown |-> "provider", result |-> <<>>, embedCalls |-> 1]
    ELSE LET queryEmbedding == embedQuery(query)
             docs == candidates(store, filter)
         IN  IF \E i \in 1..Len(docs) :
                    cosineSimilarityThrows(queryEmbedding, docs[i].embedding)
             THEN [thrown |-> "dimension", result |-> <<>>, embedCalls |-> 1]
             ELSE LET scored == [i \in 1..Len(docs) |->
                                    [document |-> docs[i],
                                     score |-> cosineSimilarity(queryEmbedding,
                                                                docs[i].embedding)]]
                  IN  [thrown |-> "none",
                       result |-> slice(sortByScore(scored), k),
                       embedCalls |-> 1]

\* a catch block that lets an error of the provider through
caught_RethrowsProvider(body) ==
    [error |-> body.thrown, raised |-> body.thrown = "provider",
     result |-> IF body.thrown = "none" THEN body.result ELSE <<>>,
     embedCalls |-> body.embedCalls]

\* what the catch block of searchKnowledgeBase makes of the try block
caught(body) ==
    [error |-> body.thrown, raised |-> FALSE,
     result |-> IF body.thrown = "none" THEN body.result ELSE <<>>,
     embedCalls |-> body.embedCalls]

\* searchKnowledgeBase without the test of store.documents.length
searchKnowledgeBase_NoLengthTest(store, query, k, filter, provider) ==
    IF ~store.present
    THEN [error |-> "none", raised |-> FALSE, result |-> <<>>, embedCalls |-> 0]
    ELSE caught(searchDocuments(store, query, k, filter, provider))

\* searchKnowledgeBase(query, k, filter) on the loaded store: the error it
\* caught, whether an error left it, the sequence it returned
searchKnowledgeBase(store, query, k, filter, provider) ==
    IF ~store.present \/ Len(store.documents) = 0
    THEN [error |-> "none", raised |-> FALSE, result |-> <<>>, embedCalls |-> 0]
    ELSE caught(searchDocuments(store, query, k, filter, provider))

\* searchKnowledgeBaseByType(query, type, k)
searchKnowledgeBaseByType(store, query, type, k, provider) ==
    searchKnowledgeBase(store, query, k, TypeFilter(type), provider)

----------------------------------------------------------------------------
(* getContextForQuery *)

\* the three fixed categories, in the order of the Promise.all
Categories == <<"vocabulary", "pattern", "example">>

\* items.map(item => item.document.content)
contents(items) == [i \in 1..Len(items) |-> items[i].document.content]

\* typeCount that sets a count instead of incrementing it
RECURSIVE typeCount_NoIncrement(_, _)
typeCount_NoIncrement(items, acc) ==
    IF items = <<>> THEN acc
    ELSE LET type == Head(items).document.type
         IN  typeCount_NoIncrement(Tail(items),
                 [t \in DOMAIN acc \cup {type} |->
                     IF t = type THEN 1 ELSE acc[t]])

\* allDocs.reduce((acc, item) => { acc[type] = (acc[type] || 0) + 1 }, {})
RECURSIVE typeCount(_, _)
typeCount(items, acc) ==
    IF items = <<>> THEN acc
    ELSE LET type == Head(items).document.type
             before == IF type \in DOMAIN acc THEN acc[type] ELSE 0
         IN  typeCount(Tail(items),
                 [t \in DOMAIN acc \cup {type} |->
                     IF t = type THEN before + 1 ELSE acc[t]])

\* the object of the catch block of getContextForQuery
EmptyContext ==
    [vocabularies |-> <<>>, patterns |-> <<>>, examples |-> <<>>,
     metadata |-> [totalDocs |-> 0, types |-> <<>>]]

\* the object of the try block, from the results of the three searches
MergedContext(vocabularies, patterns, examples) ==
    LET allDocs == vocabularies \o patterns \o examples
    IN  [vocabularies |-> contents(vocabularies),
         patterns |-> contents(patterns),
         examples |-> contents(examples),
         metadata |-> [totalDocs |-> Len(allDocs),
                       types |-> typeCount(allDocs, <<>>)]]

\* getContextForQuery where a search that caught an error makes the whole
\* call give the empty context
getContextForQuery_AllOrNothing(store, query, providers) ==
    LET vocabularies ==
            searchKnowledgeBaseByType(store, query, "vocabulary", 2, providers[1])
        patterns ==
            searchKnowledgeBaseByType(store, query, "pattern", 2, providers[2])
        examples ==
            searchKnowledgeBaseByType(store, query, "example", 3, providers[3])
        searches == <<vocabularies, patterns, examples>>
    IN  [raised |-> FALSE,
         embedCalls |-> vocabularies.embedCalls + patterns.embedCalls
                        + examples.embedCalls,
         context |-> IF \E i \in 1..3 : searches[i].raised \/ searches[i].error # "none"
                     THEN EmptyContext
                     ELSE MergedContext(vocabularies.result, patterns.result,
                                        examples.result)]

\* getContextForQuery(query) on the loaded store; providers[i] is how the
\* provider behaves in the i-th search.  A search that lets an error out
\* rejects the Promise.all, and the catch block gives the empty context.
getContextForQuery(store, query, providers) ==
    LET vocabularies ==
            searchKnowledgeBaseByType(store, query, "vocabulary", 2, providers[1])
        patterns ==
            searchKnowledgeBaseByType(store, query, "pattern", 2, providers[2])
        examples ==
            searchKnowledgeBaseByType(store, query, "example", 3, providers[3])
        searches == <<vocabularies, patterns, examples>>
    IN  [raised |-> FALSE,
         embedCalls |-> vocabularies.embedCalls + patterns.embedCalls
                        + examples.embedCalls,
         context |-> IF \E i \in 1..3 : searches[i].raised
                     THEN EmptyContext
                     ELSE MergedContext(vocabularies.result, patterns.result,
                                        examples.result)]

----------------------------------------------------------------------------
(* getRelevantExamples: the keyword fallback *)

\* A query is a text: a sequence of lexemes.  Here a lexeme is a word of the
\* rule table, written in lower case or with capitals, a blank, or another
\* run of characters ("x") that holds no term of the table.  Two lexemes
\* without a blank between them are one run of characters.

\* a lower-casing that leaves every lexeme as it is
lowerCase_Identity(word) == word

\* String.prototype.toLowerCase, lexeme by lexeme
lowerCase(word) ==
    CASE word = "Dame" -> "dame"
      [] word = "Datasets" -> "datasets"
      [] word = "CSV" -> "csv"
      [] word = "Salud" -> "salud"
      [] OTHER -> word

toLowerCase(text) == [i \in 1..Len(text) |-> lowerCase(text[i])]

\* text.includes(term), for a term of one or more lexemes
includesTerm(text, term) ==
    \E i \in 0..(Len(text) - Len(term)) : SubSeq(text, i + 1, i + Len(term)) = term

\* const keywords = [ { terms, examples }, ... ]; "anio" is the word for year
keywords ==
    << [terms |-> <<(<<"todos">>), (<<"listar">>), (<<"dame">>)>>,
        examples |-> <<0>>],
       [terms |-> <<(<<"csv">>), (<<"formato">>), (<<"json">>), (<<"xml">>)>>,
        examples |-> <<1, 6>>],
       [terms |-> <<(<<"salud">>), (<<"sanidad">>), (<<"sanitario">>)>>,
        examples |-> <<2, 5>>],
       [terms |-> <<(<<"cuantos">>), (<<"total">>), (<<"count">>), (<<"contar">>)>>,
        examples |-> <<3>>],
       [terms |-> <<(<<"fecha">>), (<<"anio">>), (<<"2023">>), (<<"2024">>),
                    (<<"publicado">>), (<<"reciente">>)>>,
        examples |-> <<4, 8>>],
       [terms |-> <<(<<"ministerio">>), (<<"gobierno">>), (<<"organismo">>),
                    (<<"publicador">>)>>,
        examples |-> <<5>>],
       [terms |-> <<(<<"categoria">>), (<<"tema">>), (<<"medio", " ", "ambiente">>)>>,
        examples |-> <<7>>],
       [terms |-> <<(<<"licencia">>), (<<"creative", " ", "commons">>)>>,
        examples |-> <<9>>] >>

\* an entry of the example sequence; reading past its end gives undefined
Example(idx) ==
    [defined |-> TRUE,
     query |-> <<"pregunta", ToString(idx)>>,
     sparql |-> <<"SELECT", ToString(idx)>>]

UndefinedEntry == [defined |-> FALSE, query |-> <<>>, sparql |-> <<>>]

\* allExamples[idx], idx counting from 0
at(allExamples, idx) ==
    IF idx >= 0 /\ idx < Len(allExamples) THEN allExamples[idx + 1]
    ELSE UndefinedEntry

\* Set.prototype.add on a Set kept in insertion order
add(selectedIndices, idx) ==
    IF \E i \in 1..Len(selectedIndices) : selectedIndices[i] = idx
    THEN selectedIndices
    ELSE Append(selectedIndices, idx)

\* examples.forEach(idx => { if (idx < allExamples.length) add(idx) })
RECURSIVE addInRange(_, _, _)
addInRange(selectedIndices, examples, length) ==
    IF examples = <<>> THEN selectedIndices
    ELSE LET idx == Head(examples)
             added == IF idx < length THEN add(selectedIndices, idx)
                      ELSE selectedIndices
         IN  addInRange(added, Tail(examples), length)

\* terms.some(term => queryLower.includes(term)), on the query as it is given
ruleMatches(rule, queryLower) ==
    \E i \in 1..Len(rule.terms) : includesTerm(queryLower, rule.terms[i])

\* for (const { terms, examples } of keywords) ...: the Set after the first
\* n rules
RECURSIVE scanRules(_, _, _)
scanRules(n, queryLower, length) ==
    IF n = 0 THEN <<>>
    ELSE LET before == scanRules(n - 1, queryLower, length)
         IN  IF ruleMatches(keywords[n], queryLower)
             THEN addInRange(before, keywords[n].examples, length)
             ELSE before

\* a selection that is left empty when no rule added an index
withDefaults_None(selectedIndices) == selectedIndices

\* if (selectedIndices.size === 0) add 0, 1, 2: no test of the range here
withDefaults(selectedIndices) ==
    IF Len(selectedIndices) = 0 THEN <<0, 1, 2>> ELSE selectedIndices

\* the indices selected for a query, before the cut to k
selectIndices(allExamples, query) ==
    withDefaults(scanRules(Len(keywords), toLowerCase(query), Len(allExamples)))

\* getRelevantExamples matching the terms against the query as it was typed
getRelevantExamples_CaseSensitive(allExamples, query, k) ==
    LET selectedIndices ==
            withDefaults(scanRules(Len(keywords), query, Len(allExamples)))
        first == slice(selectedIndices, k)
    IN  [i \in 1..Len(first) |-> at(allExamples, first[i])]

\* getRelevantExamples(query, k) on the loaded examples
getRelevantExamples(allExamples, query, k) ==
    LET first == slice(selectIndices(allExamples, query), k)
    IN  [i \in 1..Len(first) |-> at(allExamples, first[i])]

----------------------------------------------------------------------------
(* getRelevantExamplesWithEmbeddings and the POST handler *)

\* a callback that stores the embedding of the user query under the key
exampleEmbedding_OfQuery(example, query) == embedQuery(query)

\* await model.embedQuery(example.query) in the callback of allExamples.map
exampleEmbedding(example, query) == embedQuery(example.query)

\* the embedding the callback uses: the cached one, else the computed one
embeddingOf(example, query, cache) ==
    IF has(cache, example.query) THEN get(cache, example.query)
    ELSE exampleEmbedding(example, query)

\* embeddingsCache after every callback stored what it computed
setAll(cache, allExamples, query) ==
    cache \cup {<<allExamples[i].query, exampleEmbedding(allExamples[i], query)>> :
                   i \in {j \in 1..Len(allExamples) :
                             ~has(cache, allExamples[j].query)}}

\* the example with its score and its index, as the callback of
\* allExamples.map returns it
scored(allExamples, query, cache) ==
    [i \in 1..Len(allExamples) |->
        [example |-> allExamples[i],
         score |-> cosineSimilarity(embedQuery(query),
                                    embeddingOf(allExamples[i], query, cache)),
         idx |-> i - 1]]

\* getRelevantExamplesWithEmbeddings(query, k): no example gives [] at once;
\* any error of the try block (the model cannot be built, embedQuery
\* rejects, cosineSimilarity throws) is caught and answered with
\* getRelevantExamples(query, k).  cache is embeddingsCache after the call:
\* the example queries whose embedding was computed are added.
getRelevantExamplesWithEmbeddings(allExamples, query, k, provider, cache) ==
    IF Len(allExamples) = 0
    THEN [examples |-> <<>>, fellBack |-> FALSE, cache |-> cache]
    ELSE IF \/ getEmbeddingsModelThrows(provider)
            \/ embedQueryRejects(provider)
            \/ \E i \in 1..Len(allExamples) :
                   cosineSimilarityThrows(embedQuery(query),
                                          embeddingOf(allExamples[i], query, cache))
    THEN [examples |-> getRelevantExamples(allExamples, query, k),
          fellBack |-> TRUE,
          cache |-> IF getEmbeddingsModelThrows(provider) \/ embedQueryRejects(provider)
                    THEN cache
                    ELSE setAll(cache, allExamples, query)]
    ELSE LET topExamples == slice(sortByScore(scored(allExamples, query, cache)), k)
         IN  [examples |-> [i \in 1..Len(topExamples) |-> topExamples[i].example],
              fellBack |-> FALSE,
              cache |-> setAll(cache, allExamples, query)]

\* relevantExamples.map((ex, idx) => ... ex.query ... ex.sparql ...) throws a
\* TypeError when an entry is undefined
examplesTextThrows(relevantExamples) ==
    \E i \in 1..Len(relevantExamples) : ~relevantExamples[i].defined

\* the body of a request: query may be left out, be no string, or be a
\* string (the empty string is the empty text); stream defaults to true
NoBody == [kind |-> "missing", query |-> <<>>, stream |-> TRUE]

\* !query || typeof query !== "string"
invalidQuery(body) == body.kind # "string" \/ body.query = <<>>

\* how invokeLLM(prompt) ends: with a completion, with an error whose message
\* holds ECONNREFUSED or fetch failed, or with another error
LlmOutcomes == {"ok", "refused", "failed"}

NoReply ==
    [sent |-> FALSE, status |-> 0, cause |-> "none", contextSource |-> "none",
     kbDocs |-> 0, examples |-> <<>>, fellBack |-> FALSE, promptBuilt |-> FALSE,
     body |-> "none"]

\* the response of POST and the embeddingsCache it leaves: status, the step
\* that caused an error response, and what the handler had got by then
post(body, store, allExamples, provider, llm, cache) ==
    IF invalidQuery(body)
    THEN [reply |-> [NoReply EXCEPT !.sent = TRUE, !.status = 400,
                                     !.cause = "validation", !.body = "error"],
          cache |-> cache]
    ELSE
    LET kbContext == getContextForQuery(store, body.query,
                                        [i \in 1..3 |-> provider]).context
        legacy == kbContext.metadata.totalDocs = 0
        relevant == IF legacy
                    THEN getRelevantExamplesWithEmbeddings(allExamples, body.query,
                                                           3, provider, cache)
                    ELSE [examples |-> <<>>, fellBack |-> FALSE, cache |-> cache]
        sofar == [NoReply EXCEPT !.sent = TRUE,
                                 !.contextSource = IF legacy THEN "legacy"
                                                   ELSE "knowledge-base",
                                 !.kbDocs = kbContext.metadata.totalDocs,
                                 !.examples = relevant.examples,
                                 !.fellBack = relevant.fellBack]
        failed(cause, status) ==
            [sofar EXCEPT !.status = status, !.cause = cause, !.body = "error"]
    IN  [cache |-> relevant.cache,
         reply |->
            IF legacy /\ examplesTextThrows(relevant.examples)
            THEN failed("retrieval", 500)
            ELSE LET built == [sofar EXCEPT !.promptBuilt = TRUE]
                 IN  IF body.stream
                     THEN [built EXCEPT !.status = 200, !.body = "event-stream"]
                     ELSE IF llm = "refused"
                     THEN [built EXCEPT !.status = 503, !.cause = "llm",
                                        !.body = "error"]
                     ELSE IF llm = "failed"
                     THEN [built EXCEPT !.status = 500, !.cause = "llm",
                                        !.body = "error"]
                     ELSE IF DereferencesNull(ScenarioCompletion)
                     THEN [built EXCEPT !.status = 500, !.cause = "sanitizer",
                                        !.body = "error"]
                     ELSE [built EXCEPT !.status = 200, !.body = "json"]]

----------------------------------------------------------------------------
(* The event stream of POST in streaming mode *)

\* the characters of a lexeme; BQ is the character a fence is made of, and
\* any other lexeme is one character
spelling(lexeme) ==
    CASE lexeme = "PREFIX" -> <<"P", "R", "E", "F", "I", "X">>
      [] lexeme = "prefix" -> <<"p", "r", "e", "f", "i", "x">>
      [] lexeme = "SELECT" -> <<"S", "E", "L", "E", "C", "T">>
      [] lexeme = "LIMIT" -> <<"L", "I", "M", "I", "T">>
      [] lexeme = "FENCE" -> <<"BQ", "BQ", "BQ">>
      [] lexeme = "sparql" -> <<"s", "p", "a", "r", "q", "l">>
      [] OTHER -> <<lexeme>>

\* what for (const char of accumulatedText) goes through
chars(text) == Flatten([i \in 1..Len(text) |-> spelling(text[i])])

Event(type, content, accumulated, sparql) ==
    [type |-> type, content |-> content, accumulated |-> accumulated,
     sparql |-> sparql]

\* { type: "metadata", contextSource, kbDocs, provider, timestamp }
metadata == Event("metadata", <<>>, <<>>, <<>>)

\* { type: "chunk", content: char, accumulated:
\*   accumulatedText.substring(0, accumulatedText.indexOf(char) + 1) }
\* for the i-th character of the completion
chunkData(accumulatedText, i) ==
    Event("chunk", <<accumulatedText[i]>>,
          SubSeq(accumulatedText, 1, indexOf(accumulatedText, accumulatedText[i])),
          <<>>)

\* { type: "done", sparql, ... }
finalData(completion) == Event("done", <<>>, <<>>, cleanSparqlResponse(completion))

\* { type: "error", error }
errorData == Event("error", <<>>, <<>>, <<>>)

\* data: [DONE]
doneMarker == Event("[DONE]", <<>>, <<>>, <<>>)

\* a stream that goes on to the done event after it reported an error
lastEvents_DoneAfterError(completion) ==
    <<errorData, finalData(completion), doneMarker>>

\* what is enqueued once the loop is over: cleanSparqlResponse throws and
\* the catch block enqueues the error event, or the done event and the
\* marker are enqueued
lastEvents(completion) ==
    IF DereferencesNull(completion) THEN <<errorData>>
    ELSE <<finalData(completion), doneMarker>>

----------------------------------------------------------------------------
(* The GET healthcheck *)

LLMProviders == {"ollama", "openrouter", "openai", "github"}

\* process.env.LLM_PROVIDER?.toLowerCase() || "ollama", an unknown name
\* falling back to ollama
getLLMProvider(environment) ==
    LET provider ==
            CASE environment.LLM_PROVIDER = Undefined -> "ollama"
              [] environment.LLM_PROVIDER = "" -> "ollama"
              [] environment.LLM_PROVIDER = "OLLAMA" -> "ollama"
              [] environment.LLM_PROVIDER = "GitHub" -> "github"
              [] OTHER -> environment.LLM_PROVIDER
    IN  IF provider \in LLMProviders THEN provider ELSE "ollama"

Availability(available, provider, error) ==
    [available |-> available, provider |-> provider, error |-> error]

\* checkLLMAvailability(): every path returns an object, the catch blocks
\* included; fetched is how a fetch of the provider ends
checkLLMAvailability(environment, fetched) ==
    LET provider == getLLMProvider(environment)
    IN  CASE provider = "ollama" ->
                IF fetched = "throws" THEN Availability(FALSE, provider, "fetch failed")
                ELSE IF fetched = "notok"
                THEN Availability(FALSE, provider, "Ollama server not responding")
                ELSE Availability(TRUE, provider, Undefined)
          [] provider = "openrouter" ->
                IF ~environment.OPENROUTER_API_KEY
                THEN Availability(FALSE, provider, "OPENROUTER_API_KEY not configured")
                ELSE Availability(TRUE, provider, Undefined)
          [] provider = "openai" ->
                IF ~environment.OPENAI_API_KEY
                THEN Availability(FALSE, provider, "OPENAI_API_KEY not configured")
                ELSE Availability(TRUE, provider, Undefined)
          [] provider = "github" ->
                IF ~environment.GITHUB_TOKEN
                THEN Availability(FALSE, provider, "GITHUB_TOKEN not configured")
                ELSE IF fetched = "throws"
                THEN Availability(FALSE, provider, "fetch failed")
                ELSE IF fetched = "notok"
                THEN Availability(FALSE, provider, "GitHub Models API error")
                ELSE Availability(TRUE, provider, Undefined)

\* !value for the value GET tests: what checkLLMAvailability resolves to is
\* an object, and an object is never falsy
falsy(object) == FALSE

NoHealthReply == [sent |-> FALSE, http |-> 0, status |-> "none", provider |-> "none"]

\* GET(): the response for what checkLLMAvailability returned
healthResponse(environment, available) ==
    IF falsy(available)
    THEN [sent |-> TRUE, http |-> 503, status |-> "error",
          provider |-> getLLMProvider(environment)]
    ELSE [sent |-> TRUE, http |-> 200, status |-> "ok",
          provider |-> getLLMProvider(environment)]

----------------------------------------------------------------------------
(* Persisted indexes *)

DocTypes == {"vocabulary", "example"}

Embeddings == {<<1, 0>>, <<0, 1>>, <<0, 0>>, <<1>>}

\* what a document of the index may look like, its id left open
DocKinds ==
    {[type |-> t, embedded |-> TRUE, embedding |-> e] :
        t \in DocTypes, e \in Embeddings}
    \cup {[type |-> t, embedded |-> FALSE, embedding |-> <<>>] : t \in DocTypes}

\* documents get their position as id: ids are unique
IndexOf(kinds) ==
    Store([i \in 1..Len(kinds) |->
              Document(i, kinds[i].type, Undefined, Undefined,
                       kinds[i].embedded, kinds[i].embedding)])

IndexFiles ==
    {NoStore} \cup {IndexOf(kinds) :
                       kinds \in UNION {[1..n -> DocKinds] : n \in 0..MaxDocs}}

Filters == {NoFilter} \cup {TypeFilter(t) : t \in DocTypes}

\* indexes whose documents carry a category and a difficulty
FieldMetadata ==
    {[type |-> "vocabulary", category |-> Undefined, difficulty |-> Undefined],
     [type |-> "example", category |-> "catalog", difficulty |-> "basic"],
     [type |-> "example", category |-> "catalog", difficulty |-> "advanced"],
     [type |-> "example", category |-> "search", difficulty |-> "basic"]}

FieldEmbeddings ==
    {[embedded |-> TRUE, embedding |-> e] : e \in {<<1, 0>>, <<0, 1>>, <<0, 0>>}}
    \cup {[embedded |-> FALSE, embedding |-> <<>>]}

FieldIndexOf(meta, emb) ==
    Store([i \in 1..Len(meta) |->
              Document(i, meta[i].type, meta[i].category, meta[i].difficulty,
                       emb[i].embedded, emb[i].embedding)])

FieldIndexFiles ==
    UNION {{FieldIndexOf(meta, emb) :
               meta \in [1..n -> FieldMetadata], emb \in [1..n -> FieldEmbeddings]} :
           n \in 0..MaxFieldDocs}

\* filter objects: each field left out, empty, or set
FieldFilters ==
    {NoFilter}
    \cup {[given |-> TRUE, type |-> t, category |-> c, difficulty |-> d] :
             t \in {Undefined, "", "vocabulary", "example"},
             c \in {Undefined, "", "catalog"},
             d \in {Undefined, "", "basic"}}

\* indexes the context aggregator searches: documents of the three categories
ContextKinds ==
    {[type |-> t, embedded |-> TRUE, embedding |-> e] :
        t \in {"vocabulary", "pattern", "example"}, e \in {<<1, 0>>, <<1>>}}
    \cup {[type |-> "example", embedded |-> FALSE, embedding |-> <<>>]}

ContextIndexFiles ==
    {NoStore} \cup {IndexOf(kinds) :
                       kinds \in UNION {[1..n -> ContextKinds] : n \in 0..MaxContextDocs}}

\* how the provider behaves in the three searches of one getContextForQuery
\* call: it answers or fails search by search, or it is not configured
ContextProviders ==
    [1..3 -> {"ok", "unreachable"}] \cup {[i \in 1..3 |-> "unconfigured"]}

\* the example sequences loadExamples() may parse
ExampleFiles == {[i \in 1..n |-> Example(i - 1)] : n \in 0..MaxExamples}

\* the queries handed to the keyword fallback
QueryWords ==
    {"Dame", "CSV", "Salud", "ministerio", "medio", "ambiente", "licencia",
     " ", "x"}

\* the query of the documented scenario, and a query with the Spanish word
HealthQuery == <<"datasets", " ", "about", " ", "health">>

SaludQuery == <<"Datasets", " ", "sobre", " ", "Salud">>

FallbackQueries ==
    UNION {[1..n -> QueryWords] : n \in 0..MaxWords} \cup {HealthQuery, SaludQuery}

\* what a request may find on disk and what it may carry
RequestIndexFiles ==
    {NoStore} \cup {IndexOf(kinds) :
                       kinds \in UNION {[1..n -> ContextKinds] : n \in 0..MaxRequestDocs}}

RequestExampleFiles ==
    {[i \in 1..n |-> Example(i - 1)] : n \in 0..MaxRequestExamples}

RequestWords == {"Dame", "Salud", "licencia", "x"}

RequestBodies ==
    {[kind |-> kind, query |-> <<>>, stream |-> st] :
        kind \in {"missing", "number"}, st \in BOOLEAN}
    \cup {[kind |-> "string", query |-> q, stream |-> st] :
             q \in UNION {[1..n -> RequestWords] : n \in 0..MaxRequestWords},
             st \in BOOLEAN}

\* the vectors an embedding may be: integer components, the zero vector too
Vectors == UNION {[1..n -> (-MaxComponent)..MaxComponent] : n \in 1..MaxDim}

\* example files in which a question text may occur twice
RaceExampleFiles ==
    UNION {[1..n -> {Example(0), Example(1)}] : n \in 1..MaxRaceExamples}

\* the completions a stream is made from; invokeLLM may also fail
StreamCompletions == {Flatten(cs) : cs \in ChunkSeqs(MaxStreamChunks)}

LlmAnswers ==
    {[ok |-> TRUE, content |-> c] : c \in StreamCompletions}
    \cup {[ok |-> FALSE, content |-> <<>>]}

\* the environments the healthcheck may run in
Environments ==
    [LLM_PROVIDER : {Undefined, "", "ollama", "OLLAMA", "openrouter", "openai",
                     "github", "GitHub", "other"},
     OPENROUTER_API_KEY : BOOLEAN,
     OPENAI_API_KEY : BOOLEAN,
     GITHUB_TOKEN : BOOLEAN]

FetchOutcomes == {"ok", "notok", "throws"}

\* indexes searched while the provider behaves in any way
TracedIndexFiles ==
    {NoStore} \cup {IndexOf(kinds) :
                       kinds \in UNION {[1..n -> DocKinds] : n \in 0..MaxTracedDocs}}

----------------------------------------------------------------------------
(* State machine *)

SanInit(inputs) ==
    /\ response \in inputs
    /\ afterCut = <<>>
    /\ beforeRepair = <<>>
    /\ cleaned = <<>>
    /\ threw = FALSE
    /\ recleaned = <<>>
    /\ sanPc = "idle"

KbInit(files) ==
    /\ indexFile \in files
    /\ vectorStore = NoStore
    /\ loads = 0
    /\ kbQuery = <<>>
    /\ kbK = 0
    /\ kbFilter = NoFilter
    /\ kbProvider = "ok"
    /\ kbOutcome = "none"
    /\ kbError = "none"
    /\ kbResult = <<>>
    /\ kbEmbedCalls = 0

\* let embeddingsCache = new Map()
EmbInit ==
    /\ embeddingsCache = {}
    /\ computed = {}

CtxInit ==
    /\ ctxQuery = <<>>
    /\ ctxProviders = [i \in 1..3 |-> "ok"]
    /\ ctxOutcome = "none"
    /\ ctxResult = EmptyContext
    /\ ctxEmbedCalls = 0

\* no call of getRelevantExamplesWithEmbeddings has reached allExamples.map
RaceInit ==
    mapPc = [r \in 1..2 |-> <<>>]

\* the environment of the process and the healthcheck to come
HealthInit(environments, fetches) ==
    /\ env \in environments
    /\ fetchOutcome \in fetches
    /\ availability = Availability(FALSE, "none", Undefined)
    /\ healthReply = NoHealthReply

HealthIdle ==
    HealthInit({[LLM_PROVIDER |-> Undefined, OPENROUTER_API_KEY |-> FALSE,
                 OPENAI_API_KEY |-> FALSE, GITHUB_TOKEN |-> FALSE]}, {"ok"})

\* the stream of the request to come
StreamInit(answers) ==
    /\ llmAnswer \in answers
    /\ events = <<>>
    /\ closed = FALSE
    /\ position = 0
    /\ streamPc = "idle"

StreamIdle == StreamInit({[ok |-> FALSE, content |-> <<>>]})

\* no request is being served
CxlInit ==
    /\ aborted = FALSE
    /\ searchPc = [i \in 1..3 |-> "idle"]
    /\ lateCalls = 0
    /\ handed = "none"

\* the two vectors of the cosineSimilarity call to come
CsInit(vectors) ==
    /\ vecA \in vectors
    /\ vecB \in vectors
    /\ csOutcome = "none"
    /\ csScore = cosineSimilarity(<<1>>, <<1>>)

\* the request to come, and how the provider and the LLM will behave
ReqInit(bodies, providers, llms) ==
    /\ reqBody \in bodies
    /\ reqProvider \in providers
    /\ reqLlm \in llms
    /\ reply = NoReply

\* the examples on disk and the arguments of the call to come
KrInit(files, queries, ks) ==
    /\ examplesFile \in files
    /\ krQuery \in queries
    /\ krK \in ks
    /\ krOutcome = "none"
    /\ krResult = <<>>

\* cleanSparqlResponse(response)
Sanitize ==
    /\ sanPc = "idle"
    /\ afterCut' = TextAfterCut(response)
    /\ beforeRepair' = AddMissingPrefixes(TextAfterCut(response))
    /\ threw' = DereferencesNull(response)
    /\ cleaned' = IF DereferencesNull(response) THEN <<>>
                  ELSE cleanSparqlResponse(response)
    /\ sanPc' = "cleaned"
    /\ UNCHANGED <<response, recleaned>>
    /\ UNCHANGED <<kbVars, embVars, ctxVars, krVars, reqVars, csVars, cxlVars, raceVars, streamVars, healthVars>>

\* cleanSparqlResponse applied to its own result
Resanitize ==
    /\ sanPc = "cleaned"
    /\ ~threw
    /\ recleaned' = cleanSparqlResponse(cleaned)
    /\ sanPc' = "recleaned"
    /\ UNCHANGED <<response, afterCut, beforeRepair, cleaned, threw>>
    /\ UNCHANGED <<kbVars, embVars, ctxVars, krVars, reqVars, csVars, cxlVars, raceVars, streamVars, healthVars>>

\* a call of the exported loadVectorStore()
LoadVectorStore ==
    /\ vectorStore' = loadVectorStore(vectorStore, indexFile)
    /\ loads' = loads + readsFile(vectorStore, indexFile)
    /\ UNCHANGED <<indexFile, kbQuery, kbK, kbFilter, kbProvider, kbOutcome,
                   kbError, kbResult, kbEmbedCalls>>
    /\ UNCHANGED <<sanVars, embVars, ctxVars, krVars, reqVars, csVars, cxlVars, raceVars, streamVars, healthVars>>

\* searchKnowledgeBase looking the query up in embeddingsCache before it asks
\* the provider, and storing what the provider computed
Search_UsesCache(queries, ks, filters, providers) ==
    \E query \in queries, k \in ks, filter \in filters, provider \in providers :
        LET store == loadVectorStore(vectorStore, indexFile)
            hit == has(embeddingsCache, query)
            done == searchKnowledgeBase(store, query, k, filter,
                                        IF hit THEN "ok" ELSE provider)
        IN  /\ kbOutcome = "none"
            /\ ctxOutcome = "none"
            /\ vectorStore' = store
            /\ loads' = loads + readsFile(vectorStore, indexFile)
            /\ kbQuery' = query
            /\ kbK' = k
            /\ kbFilter' = filter
            /\ kbProvider' = provider
            /\ kbOutcome' = IF done.raised THEN "threw" ELSE "returned"
            /\ kbError' = done.error
            /\ kbResult' = done.result
            /\ kbEmbedCalls' = IF hit THEN 0 ELSE done.embedCalls
            /\ embeddingsCache' =
                   IF ~hit /\ done.embedCalls = 1 /\ provider = "ok"
                   THEN set(embeddingsCache, query, embedQuery(query))
                   ELSE embeddingsCache
            /\ UNCHANGED <<indexFile, computed>>
            /\ UNCHANGED <<sanVars, ctxVars, krVars, reqVars, csVars, cxlVars, raceVars, streamVars, healthVars>>

\* a call of searchKnowledgeBase(query, k, filter), from loadVectorStore() to
\* its return, with its arguments drawn from the given sets and the provider
\* behaving in one of the given ways.  One call is recorded at a time: the
\* caller takes the result before the next call of the retrieval layer.  The
\* function has no statement that reads or writes embeddingsCache.
Search(queries, ks, filters, providers) ==
    \E query \in queries, k \in ks, filter \in filters, provider \in providers :
        LET store == loadVectorStore(vectorStore, indexFile)
            done == searchKnowledgeBase(store, query, k, filter, provider)
        IN  /\ kbOutcome = "none"
            /\ ctxOutcome = "none"
            /\ vectorStore' = store
            /\ loads' = loads + readsFile(vectorStore, indexFile)
            /\ kbQuery' = query
            /\ kbK' = k
            /\ kbFilter' = filter
            /\ kbProvider' = provider
            /\ kbOutcome' = IF done.raised THEN "threw" ELSE "returned"
            /\ kbError' = done.error
            /\ kbResult' = done.result
            /\ kbEmbedCalls' = done.embedCalls
            /\ embeddingsCache' = embeddingsCache
            /\ UNCHANGED <<indexFile, computed>>
            /\ UNCHANGED <<sanVars, ctxVars, krVars, reqVars, csVars, cxlVars, raceVars, streamVars, healthVars>>

\* searchKnowledgeBase on the indexes of SpecSearch
SearchKnowledgeBase == Search(Queries, 1..MaxK, Filters, {"ok", "unreachable"})

\* the caller has taken the returned sequence (or the error): the call is
\* completed.  The process goes on, its cached store kept.  Where the calls
\* are traced, a query whose embedding the call computed is recorded.
Take(traced) ==
    /\ kbOutcome # "none"
    /\ kbQuery' = <<>>
    /\ kbK' = 0
    /\ kbFilter' = NoFilter
    /\ kbProvider' = "ok"
    /\ kbOutcome' = "none"
    /\ kbError' = "none"
    /\ kbResult' = <<>>
    /\ kbEmbedCalls' = 0
    /\ computed' = IF traced /\ kbEmbedCalls = 1 /\ kbProvider = "ok"
                   THEN computed \cup {kbQuery}
                   ELSE computed
    /\ UNCHANGED <<indexFile, vectorStore, loads, embeddingsCache>>
    /\ UNCHANGED <<sanVars, ctxVars, krVars, reqVars, csVars, cxlVars, raceVars, streamVars, healthVars>>

TakeResult == Take(FALSE)

TakeTraced == Take(TRUE)

\* a call of getContextForQuery(query), from its three searches to its
\* return.  The first search loads the store, the other two find it cached.
GetContextForQuery ==
    \E query \in {<<"datasets">>}, providers \in ContextProviders :
        LET store == loadVectorStore(vectorStore, indexFile)
            done == getContextForQuery(store, query, providers)
        IN  /\ ctxOutcome = "none"
            /\ kbOutcome = "none"
            /\ vectorStore' = store
            /\ loads' = loads + readsFile(vectorStore, indexFile)
            /\ ctxQuery' = query
            /\ ctxProviders' = providers
            /\ ctxOutcome' = IF done.raised THEN "threw" ELSE "returned"
            /\ ctxResult' = done.context
            /\ ctxEmbedCalls' = done.embedCalls
            /\ UNCHANGED <<indexFile, kbQuery, kbK, kbFilter, kbProvider,
                           kbOutcome, kbError, kbResult, kbEmbedCalls>>
            /\ UNCHANGED <<sanVars, embVars, krVars, reqVars, csVars, cxlVars, raceVars, streamVars, healthVars>>

\* the caller has taken the context
TakeContext ==
    /\ ctxOutcome # "none"
    /\ ctxQuery' = <<>>
    /\ ctxProviders' = [i \in 1..3 |-> "ok"]
    /\ ctxOutcome' = "none"
    /\ ctxResult' = EmptyContext
    /\ ctxEmbedCalls' = 0
    /\ UNCHANGED <<sanVars, kbVars, embVars, krVars, reqVars, csVars, cxlVars, raceVars, streamVars, healthVars>>

\* searchKnowledgeBase on the indexes of the context aggregator
SearchPlain == Search({<<"datasets">>}, {1}, {NoFilter}, {"ok", "unreachable"})

\* a call of getRelevantExamples(query, k): loadExamples() and the selection
GetRelevantExamples ==
    /\ krOutcome = "none"
    /\ krOutcome' = "returned"
    /\ krResult' = getRelevantExamples(examplesFile, krQuery, krK)
    /\ UNCHANGED <<examplesFile, krQuery, krK>>
    /\ UNCHANGED <<sanVars, kbVars, embVars, ctxVars, reqVars, csVars, cxlVars, raceVars, streamVars, healthVars>>

\* POST(request): the handler from the body to the response
POST ==
    LET store == loadVectorStore(vectorStore, indexFile)
        done == post(reqBody, store, examplesFile, reqProvider, reqLlm,
                     embeddingsCache)
    IN  /\ ~reply.sent
        /\ reply' = done.reply
        /\ embeddingsCache' = done.cache
        /\ vectorStore' = IF invalidQuery(reqBody) THEN vectorStore ELSE store
        /\ loads' = IF invalidQuery(reqBody) THEN loads
                    ELSE loads + readsFile(vectorStore, indexFile)
        /\ UNCHANGED <<reqBody, reqProvider, reqLlm, computed>>
        /\ UNCHANGED <<indexFile, kbQuery, kbK, kbFilter, kbProvider, kbOutcome,
                       kbError, kbResult, kbEmbedCalls>>
        /\ UNCHANGED <<sanVars, ctxVars, krVars, csVars, cxlVars, raceVars, streamVars, healthVars>>

InitSanitize == SanInit(Completions) /\ KbInit({NoStore}) /\ EmbInit /\ CtxInit /\ HealthIdle /\ StreamIdle /\ RaceInit /\ CxlInit /\ CsInit({<<>>}) /\ ReqInit({NoBody}, {"ok"}, {"ok"}) /\ KrInit({<<>>}, {<<>>}, {0})

NextSanitize == Sanitize

SpecSanitize == InitSanitize /\ [][NextSanitize]_vars

InitIdempotent == SanInit(WellFormedQueries) /\ KbInit({NoStore}) /\ EmbInit /\ CtxInit /\ HealthIdle /\ StreamIdle /\ RaceInit /\ CxlInit /\ CsInit({<<>>}) /\ ReqInit({NoBody}, {"ok"}, {"ok"}) /\ KrInit({<<>>}, {<<>>}, {0})

NextIdempotent == Sanitize \/ Resanitize

SpecIdempotent == InitIdempotent /\ [][NextIdempotent]_vars

InitSearch == SanInit({<<>>}) /\ KbInit(IndexFiles) /\ EmbInit /\ CtxInit /\ HealthIdle /\ StreamIdle /\ RaceInit /\ CxlInit /\ CsInit({<<>>}) /\ ReqInit({NoBody}, {"ok"}, {"ok"}) /\ KrInit({<<>>}, {<<>>}, {0})

NextSearch == LoadVectorStore \/ SearchKnowledgeBase \/ TakeResult

SpecSearch == InitSearch /\ [][NextSearch]_vars

\* searchKnowledgeBase with filters of every shape
SearchFiltered ==
    Search({<<"datasets">>}, 1..MaxK, FieldFilters, {"ok", "unreachable"})

InitFilter == SanInit({<<>>}) /\ KbInit(FieldIndexFiles) /\ EmbInit /\ CtxInit /\ HealthIdle /\ StreamIdle /\ RaceInit /\ CxlInit /\ CsInit({<<>>}) /\ ReqInit({NoBody}, {"ok"}, {"ok"}) /\ KrInit({<<>>}, {<<>>}, {0})

NextFilter == LoadVectorStore \/ SearchFiltered \/ TakeResult

SpecFilter == InitFilter /\ [][NextFilter]_vars

\* searchKnowledgeBase with the provider behaving in any way, the queries
\* that had their embedding computed being recorded
SearchTraced == Search(Queries, 1..MaxK, Filters, ProviderOutcomes)

InitContext ==
    SanInit({<<>>}) /\ KbInit(ContextIndexFiles) /\ EmbInit /\ CtxInit /\ HealthIdle /\ StreamIdle /\ RaceInit /\ CxlInit /\ CsInit({<<>>}) /\ ReqInit({NoBody}, {"ok"}, {"ok"}) /\ KrInit({<<>>}, {<<>>}, {0})

NextContext == SearchPlain \/ TakeResult \/ GetContextForQuery \/ TakeContext

SpecContext == InitContext /\ [][NextContext]_vars

InitFallback ==
    /\ SanInit({<<>>}) /\ KbInit({NoStore}) /\ EmbInit /\ CtxInit /\ HealthIdle /\ StreamIdle /\ RaceInit /\ CxlInit /\ CsInit({<<>>}) /\ ReqInit({NoBody}, {"ok"}, {"ok"})
    /\ KrInit(ExampleFiles, FallbackQueries, -1..MaxK)

NextFallback == GetRelevantExamples

SpecFallback == InitFallback /\ [][NextFallback]_vars

InitRequest ==
    /\ SanInit({<<>>}) /\ KbInit(RequestIndexFiles) /\ EmbInit /\ CtxInit /\ HealthIdle /\ StreamIdle /\ RaceInit /\ CxlInit /\ CsInit({<<>>})
    /\ KrInit(RequestExampleFiles, {<<>>}, {0})
    /\ ReqInit(RequestBodies, {"ok", "unreachable", "unconfigured"}, LlmOutcomes)

NextRequest == POST

SpecRequest == InitRequest /\ [][NextRequest]_vars

\* searchKnowledgeBase called with any k, negative ones included
SearchAnyK == Search(Queries, (-MaxNegativeK)..MaxK, {NoFilter}, {"ok"})

InitMisuse ==
    /\ SanInit({<<>>}) /\ KbInit(RequestIndexFiles) /\ EmbInit /\ CtxInit /\ HealthIdle /\ StreamIdle /\ RaceInit /\ CxlInit /\ CsInit({<<>>}) /\ ReqInit({NoBody}, {"ok"}, {"ok"})
    /\ KrInit(RequestExampleFiles, {<<"x">>}, (-MaxNegativeK)..MaxK)

NextMisuse == SearchAnyK \/ TakeResult \/ GetRelevantExamples

SpecMisuse == InitMisuse /\ [][NextMisuse]_vars

\* cosineSimilarity(vecA, vecB)
CosineSimilarity ==
    /\ csOutcome = "none"
    /\ csOutcome' = IF cosineSimilarityThrows(vecA, vecB) THEN "threw"
                    ELSE "returned"
    /\ csScore' = IF cosineSimilarityThrows(vecA, vecB) THEN csScore
                  ELSE cosineSimilarity(vecA, vecB)
    /\ UNCHANGED <<vecA, vecB>>
    /\ UNCHANGED <<sanVars, kbVars, embVars, ctxVars, krVars, reqVars, cxlVars, raceVars, streamVars, healthVars>>

InitScore ==
    /\ SanInit({<<>>}) /\ KbInit({NoStore}) /\ EmbInit /\ CtxInit /\ HealthIdle /\ StreamIdle /\ RaceInit /\ CxlInit
    /\ CsInit(Vectors)
    /\ KrInit({<<>>}, {<<>>}, {0}) /\ ReqInit({NoBody}, {"ok"}, {"ok"})

NextScore == CosineSimilarity

SpecScore == InitScore /\ [][NextScore]_vars

\* vector-store.json is written again, or removed, outside the process (the
\* indexer is run while the server is up)
StorageChanges ==
    /\ indexFile' \in RequestIndexFiles \ {indexFile}
    /\ UNCHANGED <<vectorStore, loads, kbQuery, kbK, kbFilter, kbProvider,
                   kbOutcome, kbError, kbResult, kbEmbedCalls>>
    /\ UNCHANGED <<sanVars, embVars, ctxVars, krVars, reqVars, csVars, cxlVars, raceVars, streamVars, healthVars>>

InitLoad ==
    /\ SanInit({<<>>}) /\ KbInit(RequestIndexFiles) /\ EmbInit /\ CtxInit /\ HealthIdle /\ StreamIdle /\ RaceInit /\ CxlInit /\ CsInit({<<>>})
    /\ KrInit({<<>>}, {<<>>}, {0}) /\ ReqInit({NoBody}, {"ok"}, {"ok"})

NextLoad ==
    \/ LoadVectorStore \/ SearchPlain \/ TakeResult
    \/ GetContextForQuery \/ TakeContext \/ StorageChanges

SpecLoad == InitLoad /\ [][NextLoad]_vars

\* POST reaches await getContextForQuery(query): the three calls of
\* searchKnowledgeBaseByType are made, each runs to its first await
CallGetContextForQuery ==
    /\ \A i \in 1..3 : searchPc[i] = "idle"
    /\ handed = "none"
    /\ searchPc' = [i \in 1..3 |-> "started"]
    /\ UNCHANGED <<aborted, lateCalls, handed>>
    /\ UNCHANGED <<sanVars, kbVars, embVars, ctxVars, krVars, reqVars, csVars, raceVars, streamVars, healthVars>>

\* search i goes on after await getEmbeddingsModel() and calls
\* model.embedQuery(query): nothing is tested before the call
EmbedQuery(i) ==
    /\ searchPc[i] = "started"
    /\ searchPc' = [searchPc EXCEPT ![i] = "embedding"]
    /\ lateCalls' = IF aborted THEN lateCalls + 1 ELSE lateCalls
    /\ UNCHANGED <<aborted, handed>>
    /\ UNCHANGED <<sanVars, kbVars, embVars, ctxVars, krVars, reqVars, csVars, raceVars, streamVars, healthVars>>

\* the provider answers search i or fails; the search returns its documents
\* or, from its catch block, the empty sequence
EmbedSettles(i) ==
    /\ searchPc[i] = "embedding"
    /\ \E outcome \in {"done", "failed"} :
          searchPc' = [searchPc EXCEPT ![i] = outcome]
    /\ UNCHANGED <<aborted, lateCalls, handed>>
    /\ UNCHANGED <<sanVars, kbVars, embVars, ctxVars, krVars, reqVars, csVars, raceVars, streamVars, healthVars>>

\* Promise.all is fulfilled when the three searches returned; the context
\* of all three categories is handed to POST
Aggregate ==
    /\ \A i \in 1..3 : searchPc[i] \in {"done", "failed"}
    /\ handed = "none"
    /\ handed' = "all"
    /\ UNCHANGED <<aborted, searchPc, lateCalls>>
    /\ UNCHANGED <<sanVars, kbVars, embVars, ctxVars, krVars, reqVars, csVars, raceVars, streamVars, healthVars>>

\* the client cancels the request while the handler waits for the context
Abort ==
    /\ ~aborted
    /\ \E i \in 1..3 : searchPc[i] # "idle"
    /\ handed = "none"
    /\ aborted' = TRUE
    /\ UNCHANGED <<searchPc, lateCalls, handed>>
    /\ UNCHANGED <<sanVars, kbVars, embVars, ctxVars, krVars, reqVars, csVars, raceVars, streamVars, healthVars>>

InitCancel ==
    /\ SanInit({<<>>}) /\ KbInit({NoStore}) /\ EmbInit /\ CtxInit /\ HealthIdle /\ StreamIdle /\ RaceInit /\ CxlInit /\ CsInit({<<>>})
    /\ KrInit({<<>>}, {<<>>}, {0}) /\ ReqInit({NoBody}, {"ok"}, {"ok"})

NextCancel ==
    \/ CallGetContextForQuery
    \/ \E i \in 1..3 : EmbedQuery(i)
    \/ \E i \in 1..3 : EmbedSettles(i)
    \/ Aggregate
    \/ Abort

SpecCancel == InitCancel /\ [][NextCancel]_vars

\* call r of getRelevantExamplesWithEmbeddings reaches allExamples.map: each
\* callback runs to its first await, so all the tests of the cache are made
\* at once and the callbacks that miss are left waiting for the provider
StartMap(r) ==
    /\ mapPc[r] = <<>>
    /\ mapPc' = [mapPc EXCEPT ![r] =
                    [i \in 1..Len(examplesFile) |->
                        IF has(embeddingsCache, examplesFile[i].query)
                        THEN "hit" ELSE "computing"]]
    /\ UNCHANGED <<sanVars, kbVars, embVars, ctxVars, krVars, reqVars, csVars, cxlVars, streamVars, healthVars>>

\* the provider answers the callback of example i in call r, which stores
\* the embedding, or it fails and nothing is stored
Settle(r, i) ==
    /\ i <= Len(mapPc[r])
    /\ mapPc[r][i] = "computing"
    /\ \E answered \in BOOLEAN :
          /\ embeddingsCache' =
                 IF answered
                 THEN set(embeddingsCache, examplesFile[i].query,
                          exampleEmbedding(examplesFile[i], <<"datasets">>))
                 ELSE embeddingsCache
          /\ mapPc' = [mapPc EXCEPT ![r][i] = IF answered THEN "stored"
                                              ELSE "failed"]
    /\ UNCHANGED computed
    /\ UNCHANGED <<sanVars, kbVars, ctxVars, krVars, reqVars, csVars, cxlVars, streamVars, healthVars>>

\* call r is over (no callback of it is waiting); a later call takes its place
Finish(r) ==
    /\ mapPc[r] # <<>>
    /\ \A i \in 1..Len(mapPc[r]) : mapPc[r][i] # "computing"
    /\ mapPc' = [mapPc EXCEPT ![r] = <<>>]
    /\ UNCHANGED <<sanVars, kbVars, embVars, ctxVars, krVars, reqVars, csVars, cxlVars, streamVars, healthVars>>

InitRace ==
    /\ SanInit({<<>>}) /\ KbInit({NoStore}) /\ EmbInit /\ CtxInit /\ HealthIdle /\ StreamIdle /\ RaceInit /\ CxlInit /\ CsInit({<<>>})
    /\ KrInit(RaceExampleFiles, {<<>>}, {0}) /\ ReqInit({NoBody}, {"ok"}, {"ok"})

NextRace ==
    \/ \E r \in 1..2 : StartMap(r)
    \/ \E r \in 1..2 : \E i \in 1..MaxRaceExamples : Settle(r, i)
    \/ \E r \in 1..2 : Finish(r)

SpecRace == InitRace /\ [][NextRace]_vars

\* start(controller) enqueues the metadata event and awaits invokeLLM
StartStream ==
    /\ streamPc = "idle"
    /\ events' = <<metadata>>
    /\ streamPc' = "waiting"
    /\ UNCHANGED <<llmAnswer, closed, position>>
    /\ UNCHANGED <<sanVars, kbVars, embVars, ctxVars, krVars, reqVars, csVars, cxlVars, raceVars, healthVars>>

\* invokeLLM rejects: the catch block enqueues the error event and closes
LlmRejects ==
    /\ streamPc = "waiting"
    /\ ~llmAnswer.ok
    /\ events' = Append(events, errorData)
    /\ closed' = TRUE
    /\ streamPc' = "closed"
    /\ UNCHANGED <<llmAnswer, position>>
    /\ UNCHANGED <<sanVars, kbVars, embVars, ctxVars, krVars, reqVars, csVars, cxlVars, raceVars, healthVars>>

\* invokeLLM resolves: the loop over the characters begins
LlmResolves ==
    /\ streamPc = "waiting"
    /\ llmAnswer.ok
    /\ streamPc' = "chunking"
    /\ UNCHANGED <<llmAnswer, events, closed, position>>
    /\ UNCHANGED <<sanVars, kbVars, embVars, ctxVars, krVars, reqVars, csVars, cxlVars, raceVars, healthVars>>

\* one turn of for (const char of accumulatedText)
EnqueueChunk ==
    /\ streamPc = "chunking"
    /\ position < Len(chars(llmAnswer.content))
    /\ events' = Append(events, chunkData(chars(llmAnswer.content), position + 1))
    /\ position' = position + 1
    /\ UNCHANGED <<llmAnswer, closed, streamPc>>
    /\ UNCHANGED <<sanVars, kbVars, embVars, ctxVars, krVars, reqVars, csVars, cxlVars, raceVars, healthVars>>

\* after the loop: the last events are enqueued and the stream is closed
EndStream ==
    /\ streamPc = "chunking"
    /\ position = Len(chars(llmAnswer.content))
    /\ events' = events \o lastEvents(llmAnswer.content)
    /\ closed' = TRUE
    /\ streamPc' = "closed"
    /\ UNCHANGED <<llmAnswer, position>>
    /\ UNCHANGED <<sanVars, kbVars, embVars, ctxVars, krVars, reqVars, csVars, cxlVars, raceVars, healthVars>>

InitStream ==
    /\ SanInit({<<>>}) /\ KbInit({NoStore}) /\ EmbInit /\ CtxInit /\ HealthIdle /\ RaceInit /\ CxlInit /\ CsInit({<<>>})
    /\ KrInit({<<>>}, {<<>>}, {0}) /\ ReqInit({NoBody}, {"ok"}, {"ok"})
    /\ StreamInit(LlmAnswers)

NextStream == StartStream \/ LlmRejects \/ LlmResolves \/ EnqueueChunk \/ EndStream

SpecStream == InitStream /\ [][NextStream]_vars

\* GET(): the healthcheck from the call of checkLLMAvailability to the response
GET ==
    /\ ~healthReply.sent
    /\ availability' = checkLLMAvailability(env, fetchOutcome)
    /\ healthReply' = healthResponse(env, checkLLMAvailability(env, fetchOutcome))
    /\ UNCHANGED <<env, fetchOutcome>>
    /\ UNCHANGED <<sanVars, kbVars, embVars, ctxVars, krVars, reqVars, csVars, cxlVars, raceVars, streamVars>>

InitHealth ==
    /\ SanInit({<<>>}) /\ KbInit({NoStore}) /\ EmbInit /\ CtxInit /\ StreamIdle /\ RaceInit /\ CxlInit /\ CsInit({<<>>})
    /\ KrInit({<<>>}, {<<>>}, {0}) /\ ReqInit({NoBody}, {"ok"}, {"ok"})
    /\ HealthInit(Environments, FetchOutcomes)

NextHealth == GET

SpecHealth == InitHealth /\ [][NextHealth]_vars

InitProvider == SanInit({<<>>}) /\ KbInit(TracedIndexFiles) /\ EmbInit /\ CtxInit /\ HealthIdle /\ StreamIdle /\ RaceInit /\ CxlInit /\ CsInit({<<>>}) /\ ReqInit({NoBody}, {"ok"}, {"ok"}) /\ KrInit({<<>>}, {<<>>}, {0})

NextProvider == LoadVectorStore \/ SearchTraced \/ TakeTraced

SpecProvider == InitProvider /\ [][NextProvider]_vars

----------------------------------------------------------------------------
(* Claims about cleanSparqlResponse *)

HasLimitClause(s) == FirstLimit(s, 1) > 0

Balanced(s) == openBraces(s) = closeBraces(s)

\* whether text sub occurs in text s
Contains(s, sub) ==
    \E i \in 0..(Len(s) - Len(sub)) : SubSeq(s, i + 1, i + Len(sub)) = sub

StartsWith(s, head) == Len(s) >= Len(head) /\ SubSeq(s, 1, Len(head)) = head

\* C1: when the text reaching the brace repair holds a limit clause and n >= 1
\* more opening than closing braces, the returned text has exactly n more
\* closing braces than that text, no other brace changed, and is balanced.
C1_InsertsAllMissingBraces ==
    (/\ sanPc = "cleaned"
     /\ HasLimitClause(beforeRepair)
     /\ openBraces(beforeRepair) > closeBraces(beforeRepair))
    => /\ closeBraces(cleaned) - closeBraces(beforeRepair)
              = openBraces(beforeRepair) - closeBraces(beforeRepair)
       /\ openBraces(cleaned) = openBraces(beforeRepair)
       /\ Balanced(cleaned)

\* C2: a completion without a limit clause and with more opening than closing
\* braces comes back balanced; the completion of the scenario comes back
\* starting with the default block and holding SELECT ?d WHERE { ?d a Dataset }.
C2_ClosesBracesWithoutLimit ==
    /\ (/\ sanPc = "cleaned"
        /\ ~HasLimitClause(response)
        /\ openBraces(response) > closeBraces(response))
       => Balanced(cleaned)
    /\ (sanPc = "cleaned" /\ response = ScenarioCompletion)
       => /\ StartsWith(cleaned, requiredPrefixes)
          /\ Contains(cleaned, <<"SELECT", " ", "x", " ", "{", " ", "x", " ", "}">>)
          /\ Balanced(cleaned)

\* C3: for a completion that starts with a prefix declaration, ends in a limit
\* clause and is brace-balanced, sanitizing the sanitized text changes nothing.
C3_Idempotent ==
    (sanPc = "recleaned" /\ WellFormed(response)) => recleaned = cleaned

\* C4: the returned text begins with a prefix-declaration keyword.
C4_BeginsWithPrefix ==
    sanPc = "cleaned" => (cleaned # <<>> /\ cleaned[1] \in PrefixAnyCase)

\* leading prose before an upper-case PREFIX was there to discard
C4_Witness ==
    /\ sanPc = "cleaned"
    /\ indexOf(response, PrefixUpper) > 1
    /\ response[1] = "x"
    /\ cleaned[1] = PrefixUpper

\* C5: a returned text that holds a limit clause ends with its first limit
\* clause.
C5_EndsWithFirstLimit ==
    (sanPc = "cleaned" /\ HasLimitClause(cleaned))
    => LimitEnd(cleaned, FirstLimit(cleaned, 1)) = Len(cleaned)

\* text followed the limit clause, the default block was prepended and a
\* brace was inserted
C5_Witness ==
    /\ sanPc = "cleaned"
    /\ HasLimitClause(response)
    /\ LimitEnd(response, FirstLimit(response, 1)) < Len(response)
    /\ beforeRepair # afterCut
    /\ cleaned # beforeRepair
    /\ HasLimitClause(cleaned)

\* C6: every call returns, and returns text.
C6_Total ==
    sanPc = "cleaned" => (~threw /\ cleaned \in Seq(Tokens))

\* the completion is empty, and no regular expression matched
C6_Witness ==
    /\ sanPc = "cleaned"
    /\ response = <<>>
    /\ cleaned = requiredPrefixes

\* C7: the default block is prepended exactly when the text after the cuts
\* holds no prefix keyword in any letter case.
C7_BlockIffNoPrefixAnyCase ==
    sanPc = "cleaned"
    => ((beforeRepair = requiredPrefixes \o afterCut)
        <=> ~(\E i \in 1..Len(afterCut) : afterCut[i] \in PrefixAnyCase))

\* C8: a text that reaches the brace repair with at least as many closing as
\* opening braces is returned as it is.
C8_NoRepairUnlessOpenExceeds ==
    (sanPc = "cleaned" /\ closeBraces(beforeRepair) >= openBraces(beforeRepair))
    => cleaned = beforeRepair

\* more closing than opening braces, with a limit clause to insert before
C8_Witness ==
    /\ sanPc = "cleaned"
    /\ closeBraces(beforeRepair) > openBraces(beforeRepair)
    /\ HasLimitClause(beforeRepair)
    /\ cleaned = beforeRepair

----------------------------------------------------------------------------
(* Claims about searchKnowledgeBase *)

\* how many documents of the index satisfy the filter and carry an embedding
Qualifying == Len(candidates(indexFile, kbFilter))

\* x >= y for two scores; NaN compares with nothing
ScoreGE(x, y) == ~x.nan /\ ~y.nan /\ ~ScoreLess(x, y)

ScoreEq(x, y) == ScoreGE(x, y) /\ ScoreGE(y, x)

C10_SortedAndStable ==
    kbOutcome = "returned"
    => \A i, j \in 1..Len(kbResult) :
          i < j => /\ ~ScoreLess(kbResult[i].score, kbResult[j].score)
                   /\ ScoreEq(kbResult[i].score, kbResult[j].score)
                      => kbResult[i].document.id < kbResult[j].document.id

\* the documents of the returned sequence
Returned == {kbResult[i].document : i \in 1..Len(kbResult)}

Indexed == {indexFile.documents[i] : i \in 1..Len(indexFile.documents)}

FilterFields == {"type", "category", "difficulty"}

\* a field is present in the filter when the filter object holds a value
\* for it
Present(filter, f) == filter.given /\ filter[f] # Undefined /\ filter[f] # ""

\* d carries an embedding and matches every field present in the filter
Qualifies(d) ==
    /\ d.embedded
    /\ \A f \in FilterFields : Present(kbFilter, f) => d[f] = kbFilter[f]

\* the score of a document of the index against the query of the call
ScoreOf(doc) == cosineSimilarity(embedQuery(kbQuery), doc.embedding)

\* e comes before d in the ranking: a higher score, or the same score and an
\* earlier place in the index
Outranks(e, d) ==
    \/ ScoreLess(ScoreOf(d), ScoreOf(e))
    \/ ScoreEq(ScoreOf(d), ScoreOf(e)) /\ e.id < d.id

----------------------------------------------------------------------------
(* Claims about errors and the embedding cache in searchKnowledgeBase *)

\* the call went past the test of the store and the provider failed in it
ProviderFailed ==
    /\ kbOutcome # "none"
    /\ kbProvider # "ok"
    /\ vectorStore.present
    /\ Len(vectorStore.documents) > 0

Mismatch ==
    /\ kbOutcome # "none"
    /\ kbProvider = "ok"
    /\ \E d \in Indexed :
          Qualifies(d) /\ Len(d.embedding) # Len(embedQuery(kbQuery))

AskedProvider ==
    /\ kbOutcome = "returned"
    /\ vectorStore.present
    /\ Len(vectorStore.documents) > 0
    /\ kbProvider # "unconfigured"

----------------------------------------------------------------------------
(* Claims about getContextForQuery *)

\* the sequence the context holds for the i-th category
CtxSeq(i) ==
    <<ctxResult.vocabularies, ctxResult.patterns, ctxResult.examples>>[i]

\* the documents of the index that carry an embedding and are of the i-th
\* category
CategoryDocs(i) == {d \in Indexed : d.embedded /\ d.type = Categories[i]}

\* the result counts asked for: 2 vocabularies, 2 patterns, 3 examples
CategoryK(i) == <<2, 2, 3>>[i]

\* the index file is absent or holds no document
IndexEmpty == ~indexFile.present \/ Len(indexFile.documents) = 0

\* C15: with the index file absent or without documents, searchKnowledgeBase
\* returns the empty sequence, does not raise and does not invoke the
\* embedding provider, and getContextForQuery returns totalDocs = 0 with
\* three empty sequences.
C15_EmptyIndex ==
    IndexEmpty
    => /\ kbOutcome # "threw"
       /\ kbOutcome = "returned" => (kbResult = <<>> /\ kbEmbedCalls = 0)
       /\ ctxOutcome # "threw"
       /\ ctxOutcome = "returned"
          => /\ ctxResult.metadata.totalDocs = 0
             /\ \A i \in 1..3 : CtxSeq(i) = <<>>

\* the index file holds no document and the provider could not be reached
C15_Witness ==
    /\ indexFile.present
    /\ Len(indexFile.documents) = 0
    /\ kbOutcome = "returned"
    /\ kbProvider = "unreachable"
    /\ kbResult = <<>>

\* the retrieval of the i-th category fails: the provider fails in that
\* search, an embedding of that category has another length than the query
\* embedding, or the category has no document to search
CategoryFails(i) ==
    \/ ctxProviders[i] # "ok"
    \/ \E d \in CategoryDocs(i) : Len(d.embedding) # Len(embedQuery(ctxQuery))
    \/ CategoryDocs(i) = {}

\* C16: a category whose retrieval fails has the empty sequence, each other
\* category has the contents of its own documents, as many as it asked for
\* or all it has, and getContextForQuery does not raise.
C16_FailuresAreIsolated ==
    ctxOutcome # "none"
    => /\ ctxOutcome = "returned"
       /\ \A i \in 1..3 :
             IF CategoryFails(i)
             THEN CtxSeq(i) = <<>>
             ELSE /\ Len(CtxSeq(i))
                        = Min({CategoryK(i), Cardinality(CategoryDocs(i))})
                  /\ \A j \in 1..Len(CtxSeq(i)) :
                        \E d \in CategoryDocs(i) : CtxSeq(i)[j] = d.content
                  /\ \A j, l \in 1..Len(CtxSeq(i)) :
                        j # l => CtxSeq(i)[j] # CtxSeq(i)[l]

\* the provider failed in the search for patterns only, a category had an
\* embedding of another length, and the third category came back
C16_Witness ==
    /\ ctxOutcome = "returned"
    /\ ctxProviders = <<"ok", "unreachable", "ok">>
    /\ CategoryDocs(2) # {}
    /\ \E d \in CategoryDocs(1) : Len(d.embedding) # Len(embedQuery(ctxQuery))
    /\ CtxSeq(1) = <<>>
    /\ CtxSeq(2) = <<>>
    /\ CtxSeq(3) # <<>>

RECURSIVE SumOf(_, _)
SumOf(f, keys) ==
    IF keys = {} THEN 0
    ELSE LET key == CHOOSE t \in keys : TRUE
         IN  f[key] + SumOf(f, keys \ {key})

\* C17: totalDocs is the sum of the lengths of the three sequences, there
\* are at most 2 vocabularies, 2 patterns and 3 examples, and the counts of
\* metadata.types sum to totalDocs.
C17_TotalDocs ==
    ctxOutcome = "returned"
    => /\ ctxResult.metadata.totalDocs
             = Len(CtxSeq(1)) + Len(CtxSeq(2)) + Len(CtxSeq(3))
       /\ Len(ctxResult.vocabularies) <= 2
       /\ Len(ctxResult.patterns) <= 2
       /\ Len(ctxResult.examples) <= 3
       /\ SumOf(ctxResult.metadata.types, DOMAIN ctxResult.metadata.types)
             = ctxResult.metadata.totalDocs

\* more examples qualified than the three asked for
C17_Witness ==
    /\ ctxOutcome = "returned"
    /\ Cardinality(CategoryDocs(3)) > 3
    /\ Len(ctxResult.examples) = 3
    /\ ctxResult.metadata.totalDocs = 3

----------------------------------------------------------------------------
(* Claims about getRelevantExamples *)

\* C19: every element returned by getRelevantExamples is an element of the
\* loaded example sequence (no undefined entry for an index out of range),
\* and with an empty example sequence the result is empty.
C19_OnlyLoadedExamples ==
    krOutcome = "returned"
    => /\ \A i \in 1..Len(krResult) :
             /\ krResult[i].defined
             /\ \E j \in 1..Len(examplesFile) : krResult[i] = examplesFile[j]
       /\ examplesFile = <<>> => krResult = <<>>

\* the rules that have a term contained in the lower-cased query
MatchingRules ==
    {r \in 1..Len(keywords) :
        \E t \in 1..Len(keywords[r].terms) :
            Contains(toLowerCase(krQuery), keywords[r].terms[t])}

\* the places of the rule table where a matching rule names idx
PlacesOf(idx) ==
    {<<r, j>> \in MatchingRules \X (1..2) :
        j <= Len(keywords[r].examples) /\ keywords[r].examples[j] = idx}

\* the example indices of the matching rules that the example sequence has
Selected == {idx \in 0..(Len(examplesFile) - 1) : PlacesOf(idx) # {}}

\* idx is first named in the table before idy is
FirstNamedBefore(idx, idy) ==
    \E p \in PlacesOf(idx) :
        \A q \in PlacesOf(idy) : p[1] < q[1] \/ (p[1] = q[1] /\ p[2] < q[2])

\* the index of the i-th returned example in the example sequence
ReturnedIndex(i) ==
    (CHOOSE j \in 1..Len(examplesFile) : examplesFile[j] = krResult[i]) - 1

\* C20: for k >= 0 at most k examples are returned; when the matching rules
\* name indices of the example sequence, the returned examples are the
\* examples at the first k of those indices, each once, in the order in
\* which the rule table first names them.
C20_SelectsInTableOrder ==
    (krOutcome = "returned" /\ krK >= 0)
    => /\ Len(krResult) <= krK
       /\ Selected # {}
          => /\ Len(krResult) = Min({krK, Cardinality(Selected)})
             /\ \A i \in 1..Len(krResult) :
                   /\ krResult[i].defined
                   /\ \E j \in 1..Len(examplesFile) : krResult[i] = examplesFile[j]
                   /\ ReturnedIndex(i) \in Selected
             /\ \A i, j \in 1..Len(krResult) :
                   i < j => FirstNamedBefore(ReturnedIndex(i), ReturnedIndex(j))
             /\ \A idx \in Selected :
                   (\A i \in 1..Len(krResult) : ReturnedIndex(i) # idx)
                   => \A i \in 1..Len(krResult) :
                         FirstNamedBefore(ReturnedIndex(i), idx)

\* three rules matched, in another order than the table has them, one index
\* named twice, one out of range, and the selection was cut to k
C20_Witness ==
    /\ krOutcome = "returned"
    /\ krQuery = <<"ministerio", "Salud", "CSV">>
    /\ Len(examplesFile) = 6
    /\ krK = 2
    /\ krResult = <<Example(1), Example(2)>>

----------------------------------------------------------------------------
(* Claims about the POST handler *)

ProviderUnavailable == reqProvider \in {"unreachable", "unconfigured"}

\* C18: with the embedding provider unavailable for every call, a request
\* with a valid query gets no error response caused by retrieval: totalDocs
\* is 0, the legacy path is taken, getRelevantExamplesWithEmbeddings returns
\* the keyword-fallback examples (none when there is no example), and the
\* prompt is built, whatever the query and the number of examples.
C18_DegradesToKeywordFallback ==
    (reply.sent /\ ~invalidQuery(reqBody) /\ ProviderUnavailable)
    => /\ reply.kbDocs = 0
       /\ reply.contextSource = "legacy"
       /\ reply.examples =
             IF examplesFile = <<>> THEN <<>>
             ELSE getRelevantExamples(examplesFile, reqBody.query, 3)
       /\ reply.promptBuilt
       /\ reply.cause # "retrieval"

----------------------------------------------------------------------------
(* Claims about the defaults of getRelevantExamples *)

\* C21: when no rule added an index (no rule matched, or every index of the
\* matching rules was out of range) and k >= 0, the result is what the
\* indices 0, 1, 2, in this order and cut to k, read from the example
\* sequence.
C21_DefaultsToFirstThree ==
    (krOutcome = "returned" /\ krK >= 0 /\ Selected = {})
    => /\ Len(krResult) = Min({krK, 3})
       /\ \A i \in 1..Len(krResult) :
             krResult[i] = IF i <= Len(examplesFile) THEN examplesFile[i]
                           ELSE UndefinedEntry

\* a rule matched but its only index is past the end of the examples
C21_Witness ==
    /\ krOutcome = "returned"
    /\ krQuery = <<"licencia">>
    /\ Len(examplesFile) = 5
    /\ krK = 3
    /\ krResult = <<Example(0), Example(1), Example(2)>>


\* the examples at the indices [2, 5] that the example sequence has
SaludExamples ==
    SelectSeq(<<2, 5>>, LAMBDA idx : idx < Len(examplesFile))

----------------------------------------------------------------------------
(* Claims about misuse *)

\* C23: a retriever called with a negative k raises an error; neither
\* searchKnowledgeBase nor getRelevantExamples returns a result sequence for
\* a negative k.
C23_NegativeKRaises ==
    /\ kbOutcome = "returned" => kbK >= 0
    /\ krOutcome = "returned" => krK >= 0

----------------------------------------------------------------------------
(* Claims about the score *)

\* C24: for two vectors of the same length, the zero vector included, the
\* score is a number in [-1, 1] (num / sqrt(den) with num * num <= den), and
\* the score of a vector against itself is 1.
C24_ScoreInRange ==
    csOutcome = "returned"
    => /\ ~csScore.nan
       /\ csScore.num * csScore.num <= csScore.den
       /\ vecA = vecB => (csScore.num > 0 /\ csScore.num * csScore.num = csScore.den)

----------------------------------------------------------------------------
(* Claims about the loaded index *)

\* C25: the process reads the persisted index at most once, and once the
\* index is loaded no step of loadVectorStore, searchKnowledgeBase or
\* getContextForQuery changes or replaces it, whatever happens to the file.
C25_LoadedOnceNeverReplaced ==
    /\ [](loads <= 1)
    /\ [][vectorStore.present => vectorStore' = vectorStore]_vars

\* the file was removed after the load and a later search still returned
\* documents of the loaded index
C25_Witness ==
    /\ loads = 1
    /\ ~indexFile.present
    /\ kbOutcome = "returned"
    /\ kbResult # <<>>
    /\ \A i \in 1..Len(kbResult) :
          \E j \in 1..Len(vectorStore.documents) :
              kbResult[i].document = vectorStore.documents[j]

----------------------------------------------------------------------------
(* Claims about cancellation *)

\* C26: once the request is cancelled the category searches in flight
\* issue no further embedding-provider call, and no partial context (some
\* categories of a cancelled request only) is handed on.
C26_CancellationReachesSearches ==
    aborted => (lateCalls = 0 /\ handed # "partial")

----------------------------------------------------------------------------
(* Claims about the embedding cache of the examples *)

\* C27: under every interleaving of the example callbacks of overlapping
\* calls, every entry of embeddingsCache holds under its key the embedding
\* of that key, a key has one entry, and an entry once written is never
\* removed nor replaced by another value.
C27_CacheEntriesStable ==
    /\ [](\A entry \in embeddingsCache :
            /\ entry[2] = embedQuery(entry[1])
            /\ \A other \in embeddingsCache : other[1] = entry[1] => other = entry)
    /\ [][\A entry \in embeddingsCache : entry \in embeddingsCache']_vars

\* a callback is still waiting for the embedding of a text whose entry
\* another callback has written already: its write comes last
C27_Witness ==
    \E r \in 1..2 : \E i \in 1..Len(mapPc[r]) :
        /\ mapPc[r][i] = "computing"
        /\ has(embeddingsCache, examplesFile[i].query)

----------------------------------------------------------------------------
(* Claims about the event stream *)

EventTypes == [i \in 1..Len(events) |-> events[i].type]

\* the positions of the events of the given types
Positions(types) == {i \in 1..Len(events) : events[i].type \in types}

\* C28: the stream begins with one metadata event, then come the chunk
\* events, then one terminal event: done, carrying the sanitized completion
\* and followed by the [DONE] marker, or error.  The stream is closed
\* exactly when the terminal events are in, and no done event follows an
\* error event.
C28_EventOrder ==
    LET n == Len(events)
        terminal == Positions({"done", "error"})
    IN  /\ streamPc # "idle" => (n >= 1 /\ Positions({"metadata"}) = {1})
        /\ Cardinality(terminal) <= 1
        /\ \A i \in Positions({"chunk"}) : \A j \in terminal : 1 < i /\ i < j
        /\ \A i \in Positions({"done"}) :
              /\ events[i].sparql = cleanSparqlResponse(llmAnswer.content)
              /\ i = n - 1
              /\ events[n] = doneMarker
        /\ \A i \in Positions({"error"}) : i = n
        /\ \A i \in Positions({"[DONE]"}) : i = n /\ events[n - 1].type = "done"
        /\ closed <=> terminal # {}

\* a stream of several chunks that ended with done and the marker
C28_Witness ==
    /\ closed
    /\ Cardinality(Positions({"chunk"})) >= 2
    /\ events[Len(events)] = doneMarker
    /\ events[Len(events) - 1].type = "done"

\* C29: the i-th chunk event carries the first i characters of the
\* completion as accumulated, and a closed stream of a completion of n
\* characters holds n chunk events.
C29_AccumulatedGrows ==
    LET text == chars(llmAnswer.content)
    IN  /\ \A i \in Positions({"chunk"}) :
              /\ i - 1 <= Len(text)
              /\ events[i].accumulated = SubSeq(text, 1, i - 1)
        /\ (closed /\ llmAnswer.ok)
           => Cardinality(Positions({"chunk"})) = Len(text)

----------------------------------------------------------------------------
(* Claims about the healthcheck *)

\* C30: GET answers status error with HTTP 503 whenever
\* checkLLMAvailability reported available = false, and answers status ok
\* only when it reported the provider available.
C30_HealthReflectsAvailability ==
    healthReply.sent
    => /\ ~availability.available
          => (healthReply.status = "error" /\ healthReply.http = 503)
       /\ healthReply.status = "ok" => availability.available

====
